---- MODULE Spec2Model ----
(***************************************************************************)
(* Induction shrink-fit controller: shared state store, safety monitor,    *)
(* control loop and sensor tasks (src/src/state.rs, safety.rs, control.rs, *)
(* sensors.rs, menu.rs).                                                   *)
(*                                                                         *)
(* f32 quantities are fixed-point integers:                                *)
(*   temperatures   0.1 C        (degC(80) = 800)                          *)
(*   power          0.00001 kW   (kW(10) = 1000000)                        *)
(*   current        0.1 A        (amp(150) = 1500)                         *)
(*   frequency      0.001 Hz     (Hz(26000) = 26000000)                    *)
(* Products that leave the grid are rounded to the nearest grid point, as  *)
(* an f32 operation rounds to the nearest representable value.             *)
(***************************************************************************)
EXTENDS Integers, Sequences, FiniteSets, TLC

VARIABLES
    meas,            \* MEASUREMENTS     (state.rs:140)
    settings,        \* CONTROL_SETTINGS (state.rs:142)
    status,          \* CONTROL_STATUS   (state.rs:144)
    fault_code,      \* FAULT_STATE.code (state.rs:146)
    gpio,            \* levels of the digital inputs (main.rs:64-67)
    report,          \* safety_task: the last poll (pins, snapshot, code)
    power_ctrl,      \* control_task: PowerController {freq_hz, integrator}
    temp_ctrl,       \* control_task: TemperatureController {integrator}
    run_active,      \* control_task locals kept across ticks
    last_button_low,
    last_toggle,
    pwm_running,
    last_mode,
    hs_enable,       \* outputs driven by control_task
    ls_enable,
    solenoid,
    pwm,             \* PWM slice: [enabled, freq_hz, deadtime_ns]
    tick,            \* loop-body locals of the last completed control tick
    ctl_settings,    \* control_task: the settings snapshot held while it waits
    menu,            \* menu_task: screen, selected_mode and the screens' locals
    sensor_writes,   \* number of measurement updates made by the sensor tasks
    buffers,         \* ChannelBuffers {sums, counts} (channel_buffers.rs:5-8)
    buf_call,        \* the last ChannelBuffers call, its result, and the
                     \* samples each channel was given since its last clear
    pc,              \* where each task is suspended
    lock_holder,     \* which task holds each record's mutex while suspended
    now              \* embassy_time::Instant::now() in ms

recVars  == <<meas, settings, status, fault_code>>
ctlVars  == <<power_ctrl, temp_ctrl, run_active, last_button_low, last_toggle,
              pwm_running, last_mode, tick, ctl_settings>>
outVars  == <<hs_enable, ls_enable, solenoid, pwm>>
bufVars  == <<buffers, buf_call>>
vars     == <<meas, settings, status, fault_code, gpio, report, power_ctrl,
              temp_ctrl, run_active, last_button_low, last_toggle, pwm_running,
              last_mode, hs_enable, ls_enable, solenoid, pwm, tick,
              ctl_settings, menu, sensor_writes, buffers, buf_call, pc,
              lock_holder, now>>

----------------------------------------------------------------------------
(* Units *)

degC(x) == x * 10
kW(x)   == x * 100000
amp(x)  == x * 10
Hz(x)   == x * 1000

\* round-to-nearest quotient, ties away from zero
RoundDiv(a, b) ==
    IF a >= 0 THEN (2 * a + b) \div (2 * b)
              ELSE -((2 * (-a) + b) \div (2 * b))

clamp(x, lo, hi) == IF x < lo THEN lo ELSE IF x > hi THEN hi ELSE x

----------------------------------------------------------------------------
(* state.rs *)

ControlMode == {"Idle", "ManualPower", "Temperature", "Cooldown"}

FaultCode == {"None", "PowerLimit", "CoilOverTemp", "ModuleOverTemp",
              "PcbOverTemp", "InterlockOpen", "GateDriverFault",
              "GateDriverNotReady", "SensorFault", "CurrentLimit"}

POWER_LIMIT_KW      == kW(10)
CURRENT_LIMIT_A     == amp(150)
COIL_TEMP_LIMIT_C   == degC(80)
MODULE_TEMP_LIMIT_C == degC(35)
PCB_TEMP_LIMIT_C    == degC(85)

ControlSettings_new ==
    [mode |-> "ManualPower", manual_power_kw |-> kW(5), target_temp_c |-> degC(120)]

ControlStatus_new ==
    [mode |-> "Idle", heating_enabled |-> FALSE, run_active |-> FALSE,
     target_reached |-> FALSE, cooldown_active |-> FALSE,
     power_setpoint_kw |-> 0, switching_freq_hz |-> 0, fault |-> "None"]

\* state.rs:58-81: the eight fields the struct declares
Measurements_new ==
    [dc_voltage_v |-> 0, coil_current_rms_a |-> 0, coil_power_kw |-> 0,
     coil_temp_c |-> 0, pcb_temp_c |-> 0, module_temp_c |-> 0,
     object_temp_c |-> 0, valid |-> FALSE]

\* MEASUREMENTS as the tasks use it: ads_task writes a ninth field,
\* coil_temp_disconnected (sensors.rs:164), and detect_measurement_fault
\* reads it (safety.rs:138).  The struct of state.rs:58-67 does not declare
\* that field; the record starts with the flag cleared.
Measurements_boot == Measurements_new @@ [coil_temp_disconnected |-> FALSE]

FaultState_new == "None"

Records == {"MEASUREMENTS", "CONTROL_SETTINGS", "CONTROL_STATUS", "FAULT_STATE"}

\* main.rs:64-67: the levels of the run button and the three safety inputs
Gpio_new ==
    [interlock_low |-> FALSE, gate_fault_low |-> FALSE, gate_ready_low |-> FALSE,
     run_button_low |-> FALSE]

----------------------------------------------------------------------------
(* safety.rs: fault evaluation *)

\* POWER_LIMIT_KW * POWER_OVERSHOOT_MARGIN: 10.0f32 * 1.05f32 rounds to 10.5
PowerFaultThreshold == (POWER_LIMIT_KW * 105) \div 100

check_gpio_faults(g) ==
    IF g.interlock_low THEN "InterlockOpen"
    ELSE IF g.gate_fault_low THEN "GateDriverFault"
    ELSE IF g.gate_ready_low THEN "GateDriverNotReady"
    ELSE "None"

\* variant: the power and current checks do not look at `valid`
detect_measurement_fault_ungated(m) ==
    IF m.coil_temp_disconnected THEN "SensorFault"
    ELSE IF m.coil_temp_c > COIL_TEMP_LIMIT_C THEN "CoilOverTemp"
    ELSE IF m.module_temp_c > MODULE_TEMP_LIMIT_C THEN "ModuleOverTemp"
    ELSE IF m.pcb_temp_c > PCB_TEMP_LIMIT_C THEN "PcbOverTemp"
    ELSE IF m.coil_power_kw > PowerFaultThreshold THEN "PowerLimit"
    ELSE IF m.coil_current_rms_a > CURRENT_LIMIT_A THEN "CurrentLimit"
    ELSE "None"

detect_measurement_fault(m) ==
    IF m.coil_temp_disconnected THEN "SensorFault"
    ELSE IF m.coil_temp_c > COIL_TEMP_LIMIT_C THEN "CoilOverTemp"
    ELSE IF m.module_temp_c > MODULE_TEMP_LIMIT_C THEN "ModuleOverTemp"
    ELSE IF m.pcb_temp_c > PCB_TEMP_LIMIT_C THEN "PcbOverTemp"
    ELSE IF m.valid /\ m.coil_power_kw > PowerFaultThreshold THEN "PowerLimit"
    ELSE IF m.valid /\ m.coil_current_rms_a > CURRENT_LIMIT_A THEN "CurrentLimit"
    ELSE "None"

\* variant: a measurement fault takes precedence over the digital inputs
evaluate_fault_measurement_first(g, m) ==
    LET code == detect_measurement_fault(m)
    IN  IF code = "None" THEN check_gpio_faults(g) ELSE code

evaluate_fault(g, m) ==
    LET code == check_gpio_faults(g)
    IN  IF code = "None" THEN detect_measurement_fault(m) ELSE code

\* variant: a stored fault is kept until something else clears it
fault_update_latched(stored, code) == IF stored = "None" THEN code ELSE stored

\* safety.rs:33-69: the record is rewritten when the evaluated code differs
fault_update(stored, code) == IF stored # code THEN code ELSE stored

\* safety.rs:33, 68: the assignment `fault.code = code` is executed
fault_written(stored, code) == stored # code

\* variant: every poll that evaluates a fault logs it as detected
fault_event_every_poll(stored, code) ==
    IF code # "None" THEN "detected"
    ELSE IF stored # "None" THEN "cleared" ELSE "none"

\* safety.rs:33-67: the log line of the poll: "Fault cleared", "Fault state
\* reset" or "Fault detected", and none when the codes are equal
fault_event(stored, code) ==
    IF stored # code
    THEN IF code = "None"
         THEN IF stored # "None" THEN "cleared" ELSE "reset"
         ELSE "detected"
    ELSE "none"

\* safety.rs:29-69: the SafetyReport of one poll (code and measurement
\* snapshot, safety.rs:15-18), the pin levels it sampled, the code it found
\* stored, the line it logged and whether it assigned the record
SafetyReport(stored, code, pins, snapshot) ==
    [code |-> code, snapshot |-> snapshot, pins |-> pins, stored_before |-> stored,
     event |-> fault_event(stored, code), wrote |-> fault_written(stored, code)]

SafetyReport_new == SafetyReport("None", "None", Gpio_new, Measurements_boot)

\* safety.rs:93-96: clear_fault() stores None whatever the record holds.
\* No task and no screen of the firmware calls it.
clear_fault(stored) == "None"

----------------------------------------------------------------------------
(* control.rs: PI controllers *)

DEADTIME_NS       == 512
BASE_FREQUENCY_HZ == Hz(29700)
MIN_FREQUENCY_HZ  == Hz(26000)
MAX_FREQUENCY_HZ  == Hz(32000)
CONTROL_PERIOD    == 10
RUN_DEBOUNCE      == 80
TARGET_TOLERANCE_C == degC(2)

PowerIntegratorLimit == Hz(2000)

PowerController_new(initial_freq) == [freq_hz |-> initial_freq, integrator |-> 0]

\* variant: reset leaves the controller as it was
PowerController_reset_skipped(c, initial_freq) == c

PowerController_reset(c, initial_freq) == [freq_hz |-> initial_freq, integrator |-> 0]

\* variant: the new frequency is not clamped to the switching range
PowerController_update_unclamped(c, setpoint_kw, measured_kw) ==
    LET error == setpoint_kw - measured_kw
        integ == clamp(c.integrator + RoundDiv(error, 1250),
                       -PowerIntegratorLimit, PowerIntegratorLimit)
    IN  [freq_hz |-> c.freq_hz + RoundDiv(error * 3, 5) + integ, integrator |-> integ]

\* KP = 60 Hz/kW, KI * dt = 8.0 * 0.010 = 0.08 Hz/kW; with the error in
\* 0.00001 kW and the frequency in 0.001 Hz that is error * 3/5 and error / 1250
PowerController_update(c, setpoint_kw, measured_kw) ==
    LET error == setpoint_kw - measured_kw
        integ == clamp(c.integrator + RoundDiv(error, 1250),
                       -PowerIntegratorLimit, PowerIntegratorLimit)
        freq  == clamp(c.freq_hz + RoundDiv(error * 3, 5) + integ,
                       MIN_FREQUENCY_HZ, MAX_FREQUENCY_HZ)
    IN  [freq_hz |-> freq, integrator |-> integ]

TemperatureController_new == [integrator |-> 0]

TemperatureController_reset(c) == [integrator |-> 0]

TempError(target_c, measured_c) ==
    IF target_c - measured_c < -degC(20) THEN -degC(20) ELSE target_c - measured_c

\* variant: the integrator accumulates without a clamp
TemperatureController_update_unclamped(c, target_c, measured_c) ==
    [integrator |-> c.integrator + TempError(target_c, measured_c) * 3]

\* KP = 0.08 kW/C, KI * dt = 0.03 * 0.010 = 0.0003 kW/C
TemperatureController_update(c, target_c, measured_c) ==
    [integrator |-> clamp(c.integrator + TempError(target_c, measured_c) * 3,
                          0, POWER_LIMIT_KW)]

\* the value TemperatureController::update returns
TemperatureController_output(c, target_c, measured_c) ==
    clamp(TempError(target_c, measured_c) * 800
            + TemperatureController_update(c, target_c, measured_c).integrator,
          0, POWER_LIMIT_KW)

----------------------------------------------------------------------------
(* utils.rs: PWM slice *)

pwm_enable(p, dt_ns, desired_freq_hz) ==
    [enabled |-> TRUE, freq_hz |-> desired_freq_hz, deadtime_ns |-> dt_ns]

pwm_disable(p) == [p EXCEPT !.enabled = FALSE]

----------------------------------------------------------------------------
(* Tasks, suspension points and locks *)

Tasks == {"adc", "ads", "mlx", "sic", "safety", "control", "menu"}


NoLocks == [r \in Records |-> "none"]

\* the mutex of record r can be taken by task t without suspending
LockFree(r, t) == lock_holder[r] \in {"none", t}

\* main.rs:137-187 spawns every task before main first suspends, so the
\* executor polls each task once before it serves any wake-up
AllStarted == \A t \in Tasks : pc[t] # "start"

Runnable(t) == pc[t] = "start" \/ (pc[t] = "timer" /\ AllStarted)

MaxTicks == 2

----------------------------------------------------------------------------
(* control.rs: control_task *)

HeatingMode(mode) == mode \in {"ManualPower", "Temperature"}

\* control.rs:58 Instant::saturating_duration_since
saturating_duration_since(t, earlier) == IF t >= earlier THEN t - earlier ELSE 0

\* variant: the level of the button is taken for a press on every tick
press_accepted_on_level(button_low, last_low, t, toggled_at) ==
    /\ button_low
    /\ saturating_duration_since(t, toggled_at) >= RUN_DEBOUNCE

\* control.rs:56-58 a press edge outside the debounce window
press_accepted(button_low, last_low, t, toggled_at) ==
    /\ button_low # last_low
    /\ button_low
    /\ saturating_duration_since(t, toggled_at) >= RUN_DEBOUNCE

\* variant: without a press, the run latch is set again in a heating mode
run_toggle_resuming(ra, accepted, mode) ==
    IF accepted /\ HeatingMode(mode) THEN ~ra ELSE HeatingMode(mode)

\* control.rs:59-62
run_toggle(ra, accepted, mode) ==
    IF accepted /\ HeatingMode(mode) THEN ~ra ELSE ra

\* variant: only the mode cancels the run latch
run_cancel_mode_only(ra, fault, mode) ==
    IF ~HeatingMode(mode) THEN FALSE ELSE ra

\* control.rs:68-75
run_cancel(ra, fault, mode) ==
    IF fault # "None" \/ ~HeatingMode(mode) THEN FALSE ELSE ra

\* variant: a read that moves the record out and leaves the default behind
measurements_after_take(m) == Measurements_boot

\* safety.rs:108, control.rs:94-97, menu.rs:185: `*MEASUREMENTS.lock().await`
\* and `.clone()` copy the record out of the mutex; this is the record the
\* mutex holds once the guard is dropped
measurements_after_read(m) == m

\* variant: heating follows the fault snapshot alone
heating_decision_without_run(ra, fault) == fault = "None"

\* control.rs:99-103
heating_decision(ra, fault) == ra /\ fault = "None"

\* variant: the setpoint is the power the settings record is constructed with
power_setpoint_of_default(s, tc, object_temp) ==
    IF s.mode = "ManualPower"
    THEN clamp(ControlSettings_new.manual_power_kw, 0, POWER_LIMIT_KW)
    ELSE TemperatureController_output(tc, s.target_temp_c, object_temp)

\* control.rs:105-112
power_setpoint(s, tc, object_temp) ==
    IF s.mode = "ManualPower"
    THEN clamp(s.manual_power_kw, 0, POWER_LIMIT_KW)
    ELSE TemperatureController_output(tc, s.target_temp_c, object_temp)

\* variant: the band excludes its lower edge
target_reached_strict(s, object_temp) ==
    s.mode = "Temperature" /\ object_temp > s.target_temp_c - TARGET_TOLERANCE_C

\* variant: the comparison made in every mode
target_reached_any_mode(s, object_temp) ==
    object_temp >= s.target_temp_c - TARGET_TOLERANCE_C

\* control.rs:108
target_reached(s, object_temp) ==
    s.mode = "Temperature" /\ object_temp >= s.target_temp_c - TARGET_TOLERANCE_C

\* variant: coolant on whenever the inverter is not in a heating mode
solenoid_level_not_heating(mode) == ~HeatingMode(mode)

\* control.rs:84, 92, 132: set_high in Cooldown, set_low in every other arm
solenoid_level(mode) == mode = "Cooldown"

\* variant: the temperature controller runs only while heating
temp_ctrl_after_while_heating(tc, s, object_temp, heating) ==
    IF s.mode = "Temperature" /\ heating
    THEN TemperatureController_update(tc, s.target_temp_c, object_temp)
    ELSE tc

\* control.rs:105-112: temp_ctrl.update is called in the Temperature arm,
\* before and outside the `if heating` of line 114
temp_ctrl_after(tc, s, object_temp, heating) ==
    IF s.mode = "Temperature"
    THEN TemperatureController_update(tc, s.target_temp_c, object_temp)
    ELSE tc

\* `switching_freq as u32`
FreqAsU32(f) == f \div 1000

\* variant: the frequency is published only by a tick that ran the update
switching_freq_of_update(mode, heating, c) ==
    IF HeatingMode(mode) /\ heating THEN c.freq_hz ELSE 0

\* control.rs:79, 115-116, 129: `switching_freq` starts the tick at 0.0 and
\* the heating-mode arm ends by copying the controller's frequency into it,
\* whether or not the tick heated
switching_freq(mode, heating, c) == IF HeatingMode(mode) THEN c.freq_hz ELSE 0

\* control.rs:42-153: one pass of the loop body, up to the
\* Timer::after(CONTROL_PERIOD) that ends it.  s is the settings snapshot of
\* line 43, fault the code current_fault() returned at line 45, level_low the
\* level run_button.is_low() returned at line 56 and m the measurement record
\* behind the guard of lines 94-97.
ControlTick(s, fault, level_low, m) ==
    LET mode     == s.mode
        changed  == mode # last_mode
        \* 47-54
        pc1      == IF changed THEN PowerController_reset(power_ctrl, BASE_FREQUENCY_HZ)
                               ELSE power_ctrl
        tc1      == IF changed THEN TemperatureController_reset(temp_ctrl) ELSE temp_ctrl
        ra1      == IF changed THEN FALSE ELSE run_active
        pr1      == IF changed THEN FALSE ELSE pwm_running
        pwm1     == IF changed THEN pwm_disable(pwm) ELSE pwm
        \* 56-66
        button_low == level_low
        accepted == press_accepted(button_low, last_button_low, now, last_toggle)
        ra2      == run_toggle(ra1, accepted, mode)
        \* 68-75
        ra3      == run_cancel(ra2, fault, mode)
        \* 94-97
        measured_power == m.coil_power_kw
        object_temp    == m.object_temp_c
        \* 99-112
        heating  == HeatingMode(mode) /\ heating_decision(ra3, fault)
        setpoint == IF HeatingMode(mode) THEN power_setpoint(s, tc1, object_temp) ELSE 0
        reached  == target_reached(s, object_temp)
        tc2      == temp_ctrl_after(tc1, s, object_temp, heating)
        \* 114-129
        pc2      == IF heating THEN PowerController_update(pc1, setpoint, measured_power)
                               ELSE pc1
        pwm2     == IF HeatingMode(mode)
                    THEN IF heating THEN pwm_enable(pwm1, DEADTIME_NS, FreqAsU32(pc2.freq_hz))
                         ELSE IF pr1 THEN pwm_disable(pwm1) ELSE pwm1
                    ELSE pwm_disable(pwm1)
        pr2      == HeatingMode(mode) /\ heating
        ra4      == IF HeatingMode(mode) THEN ra3 ELSE FALSE
        freq     == switching_freq(mode, heating, pc2)
    IN  /\ power_ctrl' = pc2
        /\ temp_ctrl' = tc2
        /\ run_active' = ra4
        /\ last_button_low' = button_low
        /\ last_toggle' = IF accepted THEN now ELSE last_toggle
        /\ pwm_running' = pr2
        /\ last_mode' = mode
        /\ pwm' = pwm2
        /\ solenoid' = solenoid_level(mode)
        /\ ls_enable' = heating
        /\ hs_enable' = heating
        /\ status' = [mode |-> mode,
                      heating_enabled |-> heating /\ pr2,
                      run_active |-> ra4,
                      target_reached |-> reached,
                      cooldown_active |-> (mode = "Cooldown"),
                      power_setpoint_kw |-> setpoint,
                      switching_freq_hz |-> freq,
                      fault |-> fault]
        /\ tick' = [n |-> tick.n + 1, settings |-> s, mode |-> mode,
                    fault |-> fault, mode_changed |-> changed, button_low |-> button_low,
                    accepted |-> accepted, heating |-> heating,
                    edge |-> (button_low # last_button_low),
                    since_toggle |-> saturating_duration_since(now, last_toggle),
                    measured_power |-> measured_power, object_temp |-> object_temp,
                    was_running |-> pwm_running]
        /\ UNCHANGED ctl_settings
        /\ now' = now + CONTROL_PERIOD

\* the values a tick worked on; before the first tick, the locals of
\* control.rs:29-36 and the settings record as constructed
Tick_new ==
    [n |-> 0, settings |-> ControlSettings_new, mode |-> "Idle",
     fault |-> "None", mode_changed |-> FALSE,
     button_low |-> FALSE, accepted |-> FALSE, heating |-> FALSE,
     edge |-> FALSE, since_toggle |-> RUN_DEBOUNCE,
     measured_power |-> 0, object_temp |-> 0, was_running |-> FALSE]

\* control_task runs a tick: the fault record's mutex is free at line 45
ControlRun ==
    /\ Runnable("control") \/ (pc["control"] = "wait_fault" /\ AllStarted)
    /\ tick.n < MaxTicks
    /\ \A r \in Records : LockFree(r, "control")
    /\ ControlTick(IF pc["control"] = "wait_fault" THEN ctl_settings ELSE settings,
                   fault_code, gpio.run_button_low, meas)
    /\ meas' = IF HeatingMode(IF pc["control"] = "wait_fault" THEN ctl_settings.mode
                                                              ELSE settings.mode)
               THEN measurements_after_read(meas) ELSE meas
    /\ pc' = [pc EXCEPT !["control"] = "timer"]
    /\ UNCHANGED <<settings, fault_code, gpio, report, menu, sensor_writes, bufVars,
                   lock_holder>>

\* the loop body on its own, given the values its reads return; every
\* record it locks is free (control.rs:43, 45, 94, 142)
ControlBody(s, fault, level_low, m) ==
    /\ \A r \in Records : LockFree(r, "control")
    /\ ControlTick(s, fault, level_low, m)
    /\ pc' = [pc EXCEPT !["control"] = "timer"]
    /\ UNCHANGED <<meas, settings, fault_code, gpio, report, menu, sensor_writes,
                   bufVars, lock_holder>>

\* control_task suspends in current_fault(): the fault record's mutex is held
ControlWait ==
    /\ Runnable("control")
    /\ tick.n < MaxTicks
    /\ LockFree("CONTROL_SETTINGS", "control")
    /\ ~LockFree("FAULT_STATE", "control")
    /\ ctl_settings' = settings
    /\ pc' = [pc EXCEPT !["control"] = "wait_fault"]
    /\ UNCHANGED <<meas, settings, status, fault_code, gpio, report, power_ctrl,
                   temp_ctrl, run_active, last_button_low, last_toggle,
                   pwm_running, last_mode, tick, outVars, menu, sensor_writes, bufVars,
                   lock_holder, now>>

----------------------------------------------------------------------------
(* safety.rs: safety_task *)

\* safety.rs:29-69: one pass of the loop body up to the timer, with the pin
\* levels and the measurement snapshot that evaluate_fault sampled.  The
\* guard `fault` bound at line 32 lives until the end of the body, so it is
\* alive when the task suspends in the Timer::after(25 ms) of line 89 and is
\* dropped only after it; the next pass takes the mutex again before the
\* task suspends.
SafetyPoll(pins, snapshot) ==
    LET code == evaluate_fault(pins, snapshot)
    IN  /\ report' = SafetyReport(fault_code, code, pins, snapshot)
        /\ fault_code' = fault_update(fault_code, code)
        /\ lock_holder' = [lock_holder EXCEPT !["FAULT_STATE"] = "safety"]
        /\ pc' = [pc EXCEPT !["safety"] = "timer"]

\* variant: the poll also publishes its code in the control status record
SafetyTask_publishing_status ==
    /\ Runnable("safety")
    /\ LockFree("MEASUREMENTS", "safety")
    /\ LockFree("FAULT_STATE", "safety")
    /\ SafetyPoll(gpio, meas)
    /\ status' = [status EXCEPT !.fault = evaluate_fault(gpio, meas)]
    /\ UNCHANGED <<meas, settings, gpio, ctlVars, outVars, menu,
                   sensor_writes, bufVars, now>>

\* safety.rs:28-90: safety_task polled by the executor
SafetyTask ==
    /\ Runnable("safety")
    /\ LockFree("MEASUREMENTS", "safety")
    /\ LockFree("FAULT_STATE", "safety")
    /\ SafetyPoll(gpio, meas)
    /\ meas' = measurements_after_read(meas)
    /\ UNCHANGED <<settings, status, gpio, ctlVars, outVars, menu,
                   sensor_writes, bufVars, now>>

\* the loop body on its own, given the levels and the record it samples
SafetyBody(pins, snapshot) ==
    /\ LockFree("FAULT_STATE", "safety")
    /\ SafetyPoll(pins, snapshot)
    /\ UNCHANGED <<meas, settings, status, gpio, ctlVars, outVars, menu,
                   sensor_writes, bufVars, now>>

\* safety.rs:93-96: a call of clear_fault() that finds the mutex free; a call
\* made while safety_task keeps its guard waits for it
ClearFault ==
    /\ lock_holder["FAULT_STATE"] = "none"
    /\ fault_code' = clear_fault(fault_code)
    /\ UNCHANGED <<meas, settings, status, gpio, report, ctlVars, outVars, menu,
                   sensor_writes, bufVars, pc, lock_holder, now>>

----------------------------------------------------------------------------
(* sensors.rs: sensor tasks.  Each reading is the converted physical value  *)
(* of one poll.                                                            *)

MaxSensorWrites == 2

\* the f32 values NaN, +inf and -inf, as codes outside every fixed-point grid
NonFinite == {2000000001, 2000000002, 2000000003}

\* f32::is_finite
is_finite(x) == x \notin NonFinite

\* variant: every sample is smoothed, the first one included
smooth_value_always(previous, new_value) ==
    IF ~is_finite(previous) THEN previous
    ELSE IF ~is_finite(new_value) THEN new_value
    ELSE previous + RoundDiv(2 * (new_value - previous), 10)

\* sensors.rs:245-251 (POWER_SMOOTH_FACTOR = 0.2).  With a finite non-zero
\* previous value a non-finite sample propagates through the arithmetic
\* (x + 0.2 * (NaN - x) = NaN, x + 0.2 * (inf - x) = inf).
smooth_value(previous, new_value) ==
    IF ~is_finite(previous) \/ previous = 0 THEN new_value
    ELSE IF ~is_finite(new_value) THEN new_value
    ELSE previous + RoundDiv(2 * (new_value - previous), 10)

\* voltages in mV, resistances in ohm, duty cycles in 1e-4

\* sensors.rs:253-255: 12-bit code of the 5 V converter
code_to_voltage(code) == RoundDiv(code * 5000, 4095)

\* quotient rounded to nearest (b > 0), for dividends that leave no room for
\* doubling
DivNear(a, b) ==
    IF a >= 0 THEN (a + (b \div 2)) \div b ELSE -((-a + (b \div 2)) \div b)

\* the element of a one-element set: evaluates an intermediate result once
\* and names it
Only(S) == CHOOSE v \in S : TRUE

\* 2^k scaling of x (1e-4) into [1.0, 2.0): <<mantissa, k>>
RECURSIVE frexp(_, _)
frexp(x, k) ==
    IF x >= 20000 THEN Only({ frexp(h, k + 1) : h \in {x \div 2} })
    ELSE IF x < 10000 THEN Only({ frexp(d, k - 1) : d \in {x * 2} })
    ELSE <<x, k>>

\* ln(m * 2^k) = k ln 2 + 2 atanh((m - 1) / (m + 1)), atanh by its series to
\* y^9; m and the result in 1e-4
ln_scaled(m, k) ==
    LET y  == ((m - 10000) * 100000) \div (m + 10000)
        y2 == (y * y) \div 100000
        t3 == (y * y2) \div 100000
        t5 == (t3 * y2) \div 100000
        t7 == (t5 * y2) \div 100000
        t9 == (t7 * y2) \div 100000
        series == 2 * (y + t3 \div 3 + t5 \div 5 + t7 \div 7 + t9 \div 9)
    IN  RoundDiv(k * 693147 + series * 10, 100)

\* libm logf, natural logarithm: argument and result in 1e-4
logf(x) == Only({ ln_scaled(mk[1], mk[2]) : mk \in { frexp(v, 0) : v \in {x} } })

\* 1 / (1/T0 + ln(R/R0)/BETA) - 273.15 with T0 in 0.01 K and the ratio in
\* 1e-4; the result in 0.1 degC
beta_temp(ratio, beta, t0_k) ==
    Only({ DivNear(t0_k * beta * 10 - 27315 * den, 10 * den) :
             den \in { beta * 10 + DivNear(t0_k * ln, 100000) : ln \in {logf(ratio)} } })

\* variant: the coil thermistor referred to 20 degC
ntc_pullup_temp_t0_293(voltage) ==
    IF voltage <= 10 \/ voltage >= 4990 THEN 0
    ELSE beta_temp(RoundDiv(10000 * voltage, 5000 - voltage), 3950, 29315)

\* sensors.rs:257-270: SERIES_R 10 kOhm, BETA 3950, R0 10 kOhm, T0 298.15 K
ntc_pullup_temp(voltage) ==
    IF voltage <= 10 \/ voltage >= 4990 THEN 0
    ELSE LET resistance == RoundDiv(10000 * voltage, 5000 - voltage)
         IN  \* resistance / R0 in 1e-4 is the resistance in ohm
             beta_temp(resistance, 3950, 29815)

\* sensors.rs:272-274
pcb_temp_v_to_c(voltage) == clamp(voltage - 500, -degC(40), degC(150))

\* variant: the voltage rises with the duty
duty_to_voltage_rising(duty) ==
    LET d == clamp(duty, 1000, 8800)
    IN  600 + RoundDiv((d - 1000) * (4500 - 600), 8800 - 1000)

\* sensors.rs:276-282: PWM_LOW_DUTY 0.10, PWM_HIGH_DUTY 0.88, 0.6 V .. 4.5 V
duty_to_voltage(duty) ==
    LET d == clamp(duty, 1000, 8800)
    IN  600 + RoundDiv((8800 - d) * (4500 - 600), 8800 - 1000)

\* sensors.rs:31-33
MODULE_NTC_BETA == 3468
MODULE_NTC_R0   == 5000
MODULE_NTC_T0_C == degC(25)

\* sensors.rs:284-291
ntc_beta_temp(resistance) ==
    IF resistance <= 10 THEN 0
    ELSE beta_temp(resistance * (10000 \div MODULE_NTC_R0), MODULE_NTC_BETA,
                   MODULE_NTC_T0_C * 10 + 27315)

\* sensors.rs:35
COIL_SENSOR_DISCONNECT_V == 4500

\* sensors.rs:18 is 512 pairs per DMA batch; windows of this many pairs here
WindowLen == 2

\* sensors.rs:122-125: 12-bit code of the 3.321 V converter to the DC-link
\* voltage (0.1 V): code * ADC_REF_V / 4095 / VDC_GAIN, clamped to 0..1000 V
adc_dc_voltage(code) == clamp(RoundDiv(code * 43566, 10000), 0, 10000)

\* sensors.rs:123-127: code to coil current (0.1 A):
\* (code * ADC_REF_V / 4095 - CURRENT_CENTER_V) * 1280, clamped to +-900 A
adc_coil_current(code) == clamp(RoundDiv(code * 103807, 10000) - 15936, -amp(900), amp(900))

RECURSIVE SumSeq(_)
SumSeq(q) == IF q = <<>> THEN 0 ELSE Head(q) + SumSeq(Tail(q))

\* nearest integer to the square root of x >= 0, by bisection on lo..hi
RECURSIVE sqrt_between(_, _, _)
sqrt_between(x, lo, hi) ==
    IF lo = hi THEN (IF x - lo * lo > lo THEN lo + 1 ELSE lo)
    ELSE Only({ IF mid * mid <= x THEN sqrt_between(x, mid, hi)
                                  ELSE sqrt_between(x, lo, mid - 1) :
                  mid \in {(lo + hi + 1) \div 2} })

\* libm sqrtf
sqrtf(x) == Only({ sqrt_between(v, 0, 20000) : v \in {x} })

\* variant: the power taken as the product of the two RMS values
window_result_apparent(pairs) ==
    LET n    == Len(pairs)
        vrms == sqrtf(RoundDiv(SumSeq([k \in 1..n |-> pairs[k].v * pairs[k].v]), n))
        irms == sqrtf(RoundDiv(SumSeq([k \in 1..n |-> pairs[k].i * pairs[k].i]), n))
    IN  [vrms |-> vrms, irms |-> irms, power_kw |-> clamp(vrms * irms, 0, kW(20))]

\* sensors.rs:114-137: the three sums over a window of converted pairs
\* (v in 0.1 V, i in 0.1 A) and what the window yields before smoothing
window_result(pairs) ==
    LET n        == Len(pairs)
        sum_v_sq == SumSeq([k \in 1..n |-> pairs[k].v * pairs[k].v])
        sum_i_sq == SumSeq([k \in 1..n |-> pairs[k].i * pairs[k].i])
        sum_vi   == SumSeq([k \in 1..n |-> pairs[k].v * pairs[k].i])
    IN  [vrms     |-> sqrtf(IF sum_v_sq < 0 THEN 0 ELSE RoundDiv(sum_v_sq, n)),
         irms     |-> sqrtf(IF sum_i_sq < 0 THEN 0 ELSE RoundDiv(sum_i_sq, n)),
         power_kw |-> clamp(RoundDiv(sum_vi, n), 0, kW(20))]

\* sensors.rs:118-127: the DMA buffer's code pairs converted
adc_convert(buffer) ==
    [k \in 1..Len(buffer) |->
        [v |-> adc_dc_voltage(buffer[k][1]), i |-> adc_coil_current(buffer[k][2])]]

\* sensors.rs:139-145: a window result w smoothed into the record
adc_store(m, w) ==
    [m EXCEPT !.dc_voltage_v = smooth_value(@, w.vrms),
              !.coil_current_rms_a = smooth_value(@, w.irms),
              !.coil_power_kw = smooth_value(@, w.power_kw),
              !.valid = TRUE]

\* variant: the flag follows a coil temperature reading of 0
ads_convert_flag_on_zero(raw) ==
    [coil_temp_c       |-> ntc_pullup_temp(code_to_voltage(raw.ch6)),
     pcb_temp_c        |-> pcb_temp_v_to_c(code_to_voltage(raw.ch3)),
     coil_disconnected |-> ntc_pullup_temp(code_to_voltage(raw.ch6)) = 0]

\* sensors.rs:158-160
ads_convert_volts(coil_temp_v, pcb_temp_v) ==
    [coil_temp_c       |-> ntc_pullup_temp(coil_temp_v),
     pcb_temp_c        |-> pcb_temp_v_to_c(pcb_temp_v),
     coil_disconnected |-> coil_temp_v >= COIL_SENSOR_DISCONNECT_V]

\* sensors.rs:154-160: channel 6 is the coil thermistor, channel 3 the PCB sensor
ads_convert(raw) ==
    ads_convert_volts(code_to_voltage(raw.ch6), code_to_voltage(raw.ch3))

\* sensors.rs:162-168: a converted poll c smoothed into the record
ads_store(m, c) ==
    [m EXCEPT !.coil_temp_disconnected = c.coil_disconnected,
              !.coil_temp_c = IF c.coil_disconnected THEN @
                              ELSE smooth_value(@, c.coil_temp_c),
              !.pcb_temp_c = smooth_value(@, c.pcb_temp_c)]

\* sensors.rs:194-196
mlx_write(m, t) == [m EXCEPT !.object_temp_c = smooth_value(@, t)]

\* sensors.rs:227-230: the averaged duty (1e-4) to the module temperature
sic_convert(duty) ==
    LET d          == clamp(duty, 500, 9500)
        voltage    == duty_to_voltage(d)
        resistance == RoundDiv(voltage * 1000, 203) - 5100
    IN  ntc_beta_temp(resistance)

\* variant: the module task also marks the record valid
sic_store_marking_valid(m, module_temp_c) ==
    [m EXCEPT !.module_temp_c = smooth_value(@, module_temp_c), !.valid = TRUE]

\* sensors.rs:232-235
sic_store(m, module_temp_c) ==
    [m EXCEPT !.module_temp_c = smooth_value(@, module_temp_c)]

\* one DMA buffer: 300 V on the DC link and 20.6 A in the coil
AdcWindows == { [k \in 1..WindowLen |-> <<689, 1555>>] }

\* the channel codes of one poll that ads_task uses, with the PCB at 30 degC:
\* the coil thermistor at 90 degC, the coil input just below and just above
\* 4.5 V (codes 3685 and 3686), and the coil input open (at the rail)
AdsReadings ==
    { [ch6 |-> c, ch3 |-> 655] : c \in {350, 3685, 3686, 4095} }

MlxReadings == { degC(119) }

\* averaged duty of the module's temperature output: 30 degC
SicReadings == { 6254 }

\* what each poll input converts to (sensors.rs:114-137, 154-160, 227-230)
AdcConverted == [b \in AdcWindows |-> window_result(adc_convert(b))]
AdsConverted == [raw \in AdsReadings |-> ads_convert(raw)]
SicConverted == [d \in SicReadings |-> sic_convert(d)]

\* one pass of sensor task t's loop body on its own: it ends with the task
\* suspended and touches nothing but MEASUREMENTS
SensorBody(t) ==
    /\ LockFree("MEASUREMENTS", t)
    /\ pc' = [pc EXCEPT ![t] = "timer"]
    /\ UNCHANGED <<settings, status, fault_code, gpio, report, ctlVars, outVars,
                   menu, lock_holder, now>>

\* sensor task t polled by the executor
SensorStep(t) == Runnable(t) /\ SensorBody(t)

\* sensors.rs:105-107: the first poll suspends in the DMA transfer
AdcSuspend ==
    /\ SensorStep("adc")
    /\ pc["adc"] = "start"
    /\ UNCHANGED <<meas, sensor_writes, bufVars>>

\* variant: a failed DMA read marks the record as not valid
AdcPollErr_invalidating ==
    /\ SensorStep("adc")
    /\ pc["adc"] = "timer"
    /\ meas' = [meas EXCEPT !.valid = FALSE]
    /\ UNCHANGED <<sensor_writes, bufVars>>

\* sensors.rs:105-112: read_many_multichannel failed, "ADC DMA error"
AdcPollErr ==
    /\ SensorStep("adc")
    /\ pc["adc"] = "timer"
    /\ UNCHANGED <<meas, sensor_writes, bufVars>>

\* sensors.rs:114-146: a completed window
AdcPollOk(buffer) ==
    /\ SensorStep("adc")
    /\ pc["adc"] = "timer"
    /\ sensor_writes < MaxSensorWrites
    /\ meas' = adc_store(meas, AdcConverted[buffer])
    /\ sensor_writes' = sensor_writes + 1
    /\ UNCHANGED bufVars

\* sensors.rs:103-147
AdcTask == AdcSuspend \/ AdcPollErr \/ \E b \in AdcWindows : AdcPollOk(b)

\* variant: a failed poll reports the coil sensor as disconnected
AdsPollErr_flagging ==
    /\ SensorStep("ads")
    /\ meas' = [meas EXCEPT !.coil_temp_disconnected = TRUE]
    /\ UNCHANGED <<sensor_writes, bufVars>>

\* sensors.rs:153, 181: get_channels failed, "ADS7828 error"
AdsPollErr ==
    /\ SensorStep("ads")
    /\ UNCHANGED <<meas, sensor_writes, bufVars>>

\* sensors.rs:153-180
AdsPollOk(raw) ==
    /\ SensorStep("ads")
    /\ sensor_writes < MaxSensorWrites
    /\ meas' = ads_store(meas, AdsConverted[raw])
    /\ sensor_writes' = sensor_writes + 1
    /\ UNCHANGED bufVars

\* sensors.rs:151-186
AdsTask == AdsPollErr \/ \E raw \in AdsReadings : AdsPollOk(raw)

\* sensors.rs:193, 199: read_object_temp failed, "MLX90614 read error"
MlxPollErr ==
    /\ SensorStep("mlx")
    /\ UNCHANGED <<meas, sensor_writes, bufVars>>

\* sensors.rs:193-198
MlxPollOk(t) ==
    /\ SensorStep("mlx")
    /\ sensor_writes < MaxSensorWrites
    /\ meas' = mlx_write(meas, t)
    /\ sensor_writes' = sensor_writes + 1
    /\ UNCHANGED bufVars

\* sensors.rs:189-203
MlxTask == MlxPollErr \/ \E t \in MlxReadings : MlxPollOk(t)

\* sensors.rs:216-218: the first poll suspends waiting for the PIO capture
SicSuspend ==
    /\ SensorStep("sic")
    /\ pc["sic"] = "start"
    /\ UNCHANGED <<meas, sensor_writes, bufVars>>

\* sensors.rs:212-242: 128 captures averaged and written
SicPoll(duty) ==
    /\ SensorStep("sic")
    /\ pc["sic"] = "timer"
    /\ sensor_writes < MaxSensorWrites
    /\ meas' = sic_store(meas, SicConverted[duty])
    /\ sensor_writes' = sensor_writes + 1
    /\ UNCHANGED bufVars

\* sensors.rs:206-243
SicTempTask == SicSuspend \/ \E d \in SicReadings : SicPoll(d)

----------------------------------------------------------------------------
(* menu.rs: menu_task *)

\* menu.rs:35-36 and the locals of the screen functions: `index` of
\* mode_select_screen, `status.target_reached` of the status screens'
\* snapshot, `last_code` of fault_screen, the button the last press saw
\* ("None" when no button was served since boot or since the fault screen,
\* which reads none), and the number of presses served so far, counted up to
\* MaxPresses
Menu_new ==
    [screen |-> "ModeSelect", selected_mode |-> "ManualPower", index |-> 0,
     target_reached |-> FALSE, last_code |-> "None", pressed |-> "None",
     presses |-> 0]

\* menu.rs:389-392
set_mode(s, mode) == [s EXCEPT !.mode = mode]

MANUAL_STEP_KW == kW(1) \div 2

TEMP_STEP_C == degC(10)
TEMP_MIN_C  == degC(40)
TEMP_MAX_C  == degC(350)

\* menu.rs:379-382
set_manual_power(s, value) == [s EXCEPT !.manual_power_kw = value]

\* menu.rs:384-387
set_temperature_target(s, value) == [s EXCEPT !.target_temp_c = value]

\* menu.rs:79-86
Screen == {"ModeSelect", "ManualConfig", "ManualStatus", "TemperatureConfig",
           "TemperatureStatus", "Cooldown"}

\* menu.rs:45-74: the mode each screen writes when it is entered
ScreenMode(screen) ==
    CASE screen = "ModeSelect"        -> "Idle"
      [] screen = "ManualConfig"      -> "ManualPower"
      [] screen = "ManualStatus"      -> "ManualPower"
      [] screen = "TemperatureConfig" -> "Temperature"
      [] screen = "TemperatureStatus" -> "Temperature"
      [] screen = "Cooldown"          -> "Cooldown"

\* menu.rs:95-99: mode_select_screen starts on the row of the mode selected
\* last; the other screens have no index
mode_select_index(screen, current_mode) ==
    IF screen = "ModeSelect" /\ current_mode = "Temperature" THEN 1 ELSE 0

\* menu.rs:31-33: backlight, lcd.clear(), lcd.home() suspend on the LCD timers
MenuStart ==
    /\ pc["menu"] = "start"
    /\ pc' = [pc EXCEPT !["menu"] = "timer"]
    /\ UNCHANGED <<recVars, gpio, report, ctlVars, outVars, menu, sensor_writes, bufVars,
                   lock_holder, now>>

\* variant: the fault screen hands back the screen it interrupted
fault_screen_return_resuming(screen) == screen

\* menu.rs:351: the screen fault_screen returns, whatever screen the loop was
\* about to run
fault_screen_return(screen) == "ModeSelect"

\* menu.rs:38-74: the top of the loop, where current_fault() returned fault:
\* the fault record's mutex is free at line 39 (safety.rs:99).  With no fault
\* the screen's mode is written (CONTROL_SETTINGS, menu.rs:389-392) and the
\* screen function starts; with a fault, fault_screen starts, reads the
\* fault record and the measurements again and shows it (menu.rs:345-375).
MenuTop(fault) ==
    /\ pc["menu"] \in {"timer", "wait_fault"}
    /\ LockFree("FAULT_STATE", "menu")
    /\ LockFree(IF fault = "None" THEN "CONTROL_SETTINGS" ELSE "MEASUREMENTS", "menu")
    /\ IF fault = "None"
       THEN /\ settings' = set_mode(settings, ScreenMode(menu.screen))
            /\ menu' = [menu EXCEPT
                            !.selected_mode =
                               IF HeatingMode(ScreenMode(menu.screen))
                               THEN ScreenMode(menu.screen) ELSE @,
                            !.index = mode_select_index(menu.screen,
                                                        menu.selected_mode)]
            /\ pc' = [pc EXCEPT !["menu"] = "screen"]
       ELSE /\ pc' = [pc EXCEPT !["menu"] = "fault_screen"]
            /\ menu' = [menu EXCEPT !.last_code = fault]
            /\ UNCHANGED settings
    /\ UNCHANGED <<meas, status, fault_code, gpio, report, ctlVars, outVars,
                   sensor_writes, bufVars, lock_holder, now>>

\* menu.rs:344-376: a pass of fault_screen's loop, where current_fault()
\* returned code (the fault record's mutex is free at line 345): None ends
\* the screen, a fault is shown with the measurements read at line 354 for
\* another 200 ms
MenuFaultScreen(code) ==
    /\ pc["menu"] = "fault_screen"
    /\ LockFree("FAULT_STATE", "menu")
    /\ code # "None" => LockFree("MEASUREMENTS", "menu")
    /\ IF code = "None"
       THEN /\ menu' = [menu EXCEPT !.screen = fault_screen_return(menu.screen),
                                    !.last_code = "None",
                                    !.pressed = "None"]
            /\ pc' = [pc EXCEPT !["menu"] = "timer"]
       ELSE /\ menu' = [menu EXCEPT !.last_code = code]
            /\ UNCHANGED pc
    /\ UNCHANGED <<recVars, gpio, report, ctlVars, outVars, sensor_writes, bufVars,
                   lock_holder, now>>

\* menu.rs:39: current_fault() suspends, the fault record's mutex is held
MenuWait ==
    /\ pc["menu"] = "timer"
    /\ AllStarted
    /\ ~LockFree("FAULT_STATE", "menu")
    /\ pc' = [pc EXCEPT !["menu"] = "wait_fault"]
    /\ UNCHANGED <<recVars, gpio, report, ctlVars, outVars, menu, sensor_writes, bufVars,
                   lock_holder, now>>

Buttons == {"Up", "Down", "Enter"}

MaxPresses == 5

\* the screens that poll the button levels every STATUS_REFRESH_MS after
\* reading the records
StatusScreens == {"ManualStatus", "TemperatureStatus"}

\* variant: the stepped value is written as it is
manual_power_next_unclamped(value, b) ==
    value + (IF b = "Up" THEN MANUAL_STEP_KW ELSE -MANUAL_STEP_KW)

\* menu.rs:161-168
manual_power_next(value, b) ==
    clamp(value + (IF b = "Up" THEN MANUAL_STEP_KW ELSE -MANUAL_STEP_KW),
          0, POWER_LIMIT_KW)

\* menu.rs:246-253
target_temp_next(value, b) ==
    clamp(value + (IF b = "Up" THEN TEMP_STEP_C ELSE -TEMP_STEP_C),
          TEMP_MIN_C, TEMP_MAX_C)

\* variant: Enter on the temperature status screen always starts the cooldown
temperature_status_return_any(b, reached) ==
    CASE b = "Enter" -> "Cooldown"
      [] b = "Up"    -> "TemperatureConfig"
      [] b = "Down"  -> "ModeSelect"

\* menu.rs:294-311: `reached` is status.target_reached of the snapshot taken
\* at line 269
temperature_status_return(b, reached) ==
    CASE b = "Enter" -> IF reached THEN "Cooldown" ELSE "TemperatureConfig"
      [] b = "Up"    -> "TemperatureConfig"
      [] b = "Down"  -> "ModeSelect"

\* menu.rs:211-222
manual_status_return(b) ==
    CASE b = "Enter" -> "ModeSelect"
      [] b = "Up"    -> "ManualConfig"
      [] b = "Down"  -> "ModeSelect"

\* whether button b makes the screen function return to menu_task's loop:
\* the `return`s of menu.rs:129-135, 169-171, 211-222, 254-256, 294-311, 328-334
press_returns(screen, b) ==
    IF screen \in {"ModeSelect", "ManualConfig", "TemperatureConfig"}
    THEN b = "Enter" ELSE TRUE

\* the screen returned to menu_task's loop by a press that returns
screen_after_press(screen, b, index, reached) ==
    CASE screen = "ModeSelect"        ->
            IF index = 0 THEN "ManualConfig" ELSE "TemperatureConfig"
      [] screen = "ManualConfig"      -> "ManualStatus"
      [] screen = "ManualStatus"      -> manual_status_return(b)
      [] screen = "TemperatureConfig" -> "TemperatureStatus"
      [] screen = "TemperatureStatus" -> temperature_status_return(b, reached)
      [] screen = "Cooldown"          -> "ModeSelect"

\* the settings record after the screen served button b: menu.rs:161-168,
\* 246-253 and 332
settings_after_press(screen, b, s) ==
    CASE screen = "ManualConfig" /\ b # "Enter" ->
            set_manual_power(s, manual_power_next(s.manual_power_kw, b))
      [] screen = "TemperatureConfig" /\ b # "Enter" ->
            set_temperature_target(s, target_temp_next(s.target_temp_c, b))
      [] screen = "Cooldown" -> set_mode(s, "Idle")
      [] OTHER -> s

\* menu.rs:184-185 and 269-271: a status screen clones the status record at
\* the top of its loop, st being the clone, and suspends writing the display
MenuRead(st) ==
    /\ pc["menu"] = "screen"
    /\ menu.screen \in StatusScreens
    /\ \A r \in {"CONTROL_SETTINGS", "CONTROL_STATUS", "MEASUREMENTS"} :
          LockFree(r, "menu")
    /\ menu' = [menu EXCEPT !.target_reached = st.target_reached]
    /\ pc' = [pc EXCEPT !["menu"] = "display"]
    /\ UNCHANGED <<recVars, gpio, report, ctlVars, outVars, sensor_writes, bufVars,
                   lock_holder, now>>

\* menu.rs:224 and 313: no button is low, the status screen sleeps for
\* STATUS_REFRESH_MS
MenuNoPress ==
    /\ pc["menu"] = "display"
    /\ pc' = [pc EXCEPT !["menu"] = "screen"]
    /\ UNCHANGED <<recVars, gpio, report, ctlVars, outVars, menu, sensor_writes, bufVars,
                   lock_holder, now>>

\* a screen serves button b: wait_for_press returns it on the selection and
\* configuration screens (menu.rs:122-136, 160-172, 245-257), the status and
\* cooldown screens find it low (211-222, 294-311, 328-334)
MenuPress(b) ==
    LET screen  == menu.screen
        returns == press_returns(screen, b)
    IN  /\ pc["menu"] = IF screen \in StatusScreens THEN "display" ELSE "screen"
        /\ LockFree("CONTROL_SETTINGS", "menu")
        /\ settings' = settings_after_press(screen, b, settings)
        /\ menu' = IF returns
                   THEN [menu EXCEPT
                           !.screen = screen_after_press(screen, b, menu.index,
                                                         menu.target_reached),
                           !.index = 0,
                           !.pressed = b,
                           !.presses = IF @ < MaxPresses THEN @ + 1 ELSE @]
                   ELSE [menu EXCEPT
                           !.index = IF screen = "ModeSelect" THEN (@ + 1) % 2
                                                             ELSE @,
                           !.pressed = b,
                           !.presses = IF @ < MaxPresses THEN @ + 1 ELSE @]
        /\ pc' = [pc EXCEPT !["menu"] = IF returns THEN "timer" ELSE "screen"]
        /\ UNCHANGED <<meas, status, fault_code, gpio, report, ctlVars, outVars,
                       sensor_writes, bufVars, lock_holder, now>>

----------------------------------------------------------------------------
(* Digital inputs (main.rs:64-67): levels set by the machine *)

InterlockChange ==
    /\ gpio' = [gpio EXCEPT !.interlock_low = ~@]
    /\ UNCHANGED <<recVars, report, ctlVars, outVars, menu, sensor_writes, bufVars, pc,
                   lock_holder, now>>

RunButtonChange ==
    /\ gpio' = [gpio EXCEPT !.run_button_low = ~@]
    /\ UNCHANGED <<recVars, report, ctlVars, outVars, menu, sensor_writes, bufVars, pc,
                   lock_holder, now>>

----------------------------------------------------------------------------
(* channel_buffers.rs: ChannelBuffers *)

Channels == 0 .. 7

ADC_FULL_SCALE == 4095
U16_FULL_SCALE == 65535

\* channel_buffers.rs:11-16. `sums` holds each channel's sum in units of
\* 1/4095: the code adds val / 4095.0 in f64
ChannelBuffers_new ==
    [sums |-> [i \in Channels |-> 0], counts |-> [i \in Channels |-> 0]]

BufCall_new ==
    [op |-> "new", channel |-> 0, returned |-> 0, repeated |-> FALSE,
     added |-> [i \in Channels |-> <<>>]]

\* channel_buffers.rs:19-25
ChannelBuffers_add_samples(b, raw) ==
    [sums   |-> [i \in Channels |-> b.sums[i] + raw[i]],
     counts |-> [i \in Channels |-> b.counts[i] + 1]]

\* variant: a read clears every channel
ChannelBuffers_read_and_clear_all(b, channel) == ChannelBuffers_new

\* channel_buffers.rs:30-35: the buffers after read_and_clear(channel)
ChannelBuffers_read_and_clear(b, channel) ==
    [sums   |-> [b.sums EXCEPT ![channel % 8] = 0],
     counts |-> [b.counts EXCEPT ![channel % 8] = 0]]

\* channel_buffers.rs:30-44: the values read_and_clear(channel) can return.
\* `(avg * 65535.0) as u16` truncates sum * 65535 / (4095 * c), computed in
\* f64. When that quotient is not an integer it lies at least 1 / (4095 * c)
\* from one, far more than the f64 error, and the cast gives its floor. When
\* it is an integer the f64 product is that integer or the double just below
\* it, which the cast takes one count down: 546 and 2730 average to 0.4 and
\* return 26213, while 546 and 1092 average to 0.2 and return 13107. A
\* single sample and samples that are all 0 or all 4095 give the integer.
ChannelBuffers_read_values(b, channel) ==
    LET ch  == channel % 8
        sum == b.sums[ch]
        c   == b.counts[ch]
        n   == sum * U16_FULL_SCALE
        d   == ADC_FULL_SCALE * c
    IN  IF c = 0 THEN {0}
        ELSE IF n % d # 0 THEN {n \div d}
        ELSE IF c = 1 \/ sum = 0 \/ sum = ADC_FULL_SCALE * c THEN {n \div d}
        ELSE {n \div d - 1, n \div d}

----------------------------------------------------------------------------
(* The firmware: every task under the cooperative executor *)

\* the statics of state.rs, the pins of main.rs and control_task's locals
Constructed ==
    /\ meas = Measurements_boot
    /\ settings = ControlSettings_new
    /\ status = ControlStatus_new
    /\ fault_code = FaultState_new
    /\ gpio = Gpio_new
    /\ report = SafetyReport_new
    /\ run_active = FALSE
    /\ last_button_low = FALSE
    /\ now = 150
    /\ last_toggle = 150 - RUN_DEBOUNCE
    /\ pwm_running = FALSE
    /\ last_mode = "Idle"
    /\ hs_enable = FALSE
    /\ ls_enable = FALSE
    /\ solenoid = FALSE
    /\ pwm = [enabled |-> FALSE, freq_hz |-> 0, deadtime_ns |-> 0]
    /\ tick = Tick_new
    /\ ctl_settings = ControlSettings_new
    /\ menu = Menu_new
    /\ sensor_writes = 0
    /\ buffers = ChannelBuffers_new
    /\ buf_call = BufCall_new
    /\ lock_holder = NoLocks

Init ==
    /\ Constructed
    /\ power_ctrl = PowerController_new(BASE_FREQUENCY_HZ)
    /\ temp_ctrl = TemperatureController_new
    /\ pc = [t \in Tasks |-> "start"]

Next ==
    \/ AdcTask
    \/ AdsTask
    \/ MlxTask
    \/ SicTempTask
    \/ SafetyTask
    \/ ControlRun
    \/ ControlWait
    \/ MenuStart
    \/ MenuWait
    \/ InterlockChange
    \/ RunButtonChange

Spec == Init /\ [][Next]_vars

\* the executor polls every task that is ready to run
FairSpec ==
    /\ Spec
    /\ WF_vars(AdcTask) /\ WF_vars(AdsTask) /\ WF_vars(MlxTask)
    /\ WF_vars(SicTempTask) /\ WF_vars(SafetyTask)
    /\ WF_vars(ControlRun) /\ WF_vars(ControlWait)
    /\ WF_vars(MenuStart) /\ WF_vars(MenuWait)

\* C4 as stated: between two steps every task is suspended, and no task then
\* holds the lock of one of the four shared records.
C4_NoLockAcrossSuspension ==
    \A r \in Records : lock_holder[r] = "none"

\* C5 as stated: under fair scheduling, a fault condition that stays true
\* while the enable lines are high leads to a stored fault code and to the
\* enable lines low and the PWM disabled, and the control loop never waits
\* for the fault record forever.
C5_FaultStopsHeating ==
    /\ [](gpio.interlock_low /\ hs_enable =>
            <>(\/ ~gpio.interlock_low
               \/ /\ fault_code # "None"
                  /\ ~hs_enable /\ ~ls_enable /\ ~pwm.enabled))
    /\ [](pc["control"] = "wait_fault" => <>(pc["control"] # "wait_fault"))

\* C6: every step that changes MEASUREMENTS is a sensor task's, every step
\* that changes CONTROL_SETTINGS is the menu task's, every step that changes
\* CONTROL_STATUS is the control loop's, and every step that changes
\* FAULT_STATE is the safety monitor's.
C6_SingleWriter ==
    [][/\ meas' # meas => AdcTask \/ AdsTask \/ MlxTask \/ SicTempTask
       /\ settings' # settings =>
             MenuStart \/ MenuWait \/ \E f \in FaultCode : MenuTop(f)
       /\ status' # status => ControlRun
       /\ fault_code' # fault_code => SafetyTask]_vars

\* the sensor tasks, the control loop and the safety monitor have each written
\* their record, and the menu task has been polled
C6_Witness ==
    /\ meas.valid /\ meas.coil_temp_disconnected
    /\ status.mode = "ManualPower"
    /\ fault_code = "SensorFault"
    /\ pc["menu"] = "wait_fault"

----------------------------------------------------------------------------
(* The safety monitor's loop body on its own: evaluate_fault over every     *)
(* combination of the digital inputs and the measurement record            *)

\* measurement records with each limit exactly met and just exceeded
MeasSamples ==
    { [Measurements_boot EXCEPT
          !.coil_temp_disconnected = d, !.coil_temp_c = c, !.module_temp_c = m,
          !.pcb_temp_c = b, !.valid = v, !.coil_power_kw = p,
          !.coil_current_rms_a = i] :
        d \in BOOLEAN, v \in BOOLEAN,
        c \in {COIL_TEMP_LIMIT_C, COIL_TEMP_LIMIT_C + 1},
        m \in {MODULE_TEMP_LIMIT_C, MODULE_TEMP_LIMIT_C + 1},
        b \in {PCB_TEMP_LIMIT_C, PCB_TEMP_LIMIT_C + 1},
        p \in {PowerFaultThreshold, PowerFaultThreshold + 1},
        i \in {CURRENT_LIMIT_A, CURRENT_LIMIT_A + 1} }

\* every combination of levels on the three safety inputs
GpioSamples ==
    { [Gpio_new EXCEPT !.interlock_low = i, !.gate_fault_low = f,
                       !.gate_ready_low = r] : i, f, r \in BOOLEAN }

SafetyNext ==
    \/ \E pins \in GpioSamples, snapshot \in MeasSamples : SafetyBody(pins, snapshot)
    \/ ClearFault

SafetySpec == Init /\ [][SafetyNext]_vars

\* the decision list of the fault table, highest priority first
FaultPriorityList(g, m) ==
    << [when |-> g.interlock_low,                 code |-> "InterlockOpen"],
       [when |-> g.gate_fault_low,                code |-> "GateDriverFault"],
       [when |-> g.gate_ready_low,                code |-> "GateDriverNotReady"],
       [when |-> m.coil_temp_disconnected,        code |-> "SensorFault"],
       [when |-> m.coil_temp_c > degC(80),        code |-> "CoilOverTemp"],
       [when |-> m.module_temp_c > degC(35),      code |-> "ModuleOverTemp"],
       [when |-> m.pcb_temp_c > degC(85),         code |-> "PcbOverTemp"],
       [when |-> m.valid /\ 2 * m.coil_power_kw > kW(21),
                                                  code |-> "PowerLimit"],
       [when |-> m.valid /\ m.coil_current_rms_a > amp(150),
                                                  code |-> "CurrentLimit"] >>

FirstMatch(list) ==
    LET hits == {i \in DOMAIN list : list[i].when}
    IN  IF hits = {} THEN "None"
        ELSE list[CHOOSE i \in hits : \A j \in hits : i <= j].code

\* C1: whatever the three digital inputs and the measurement record hold, a
\* safety poll evaluates to the first matching entry of the priority list
\* (interlock, gate fault, gate ready, sensor disconnected, coil, module and
\* PCB over-temperature, power limit, current limit) and to None if no entry
\* matches.
C1_FirstMatchWins ==
    report.code = FirstMatch(FaultPriorityList(report.pins, report.snapshot))

\* a poll with the interlock open and the coil too hot has reported InterlockOpen
C1_Witness ==
    /\ lock_holder["FAULT_STATE"] = "safety"
    /\ report.pins.interlock_low
    /\ report.snapshot.coil_temp_c > COIL_TEMP_LIMIT_C
    /\ report.code = "InterlockOpen"
    /\ fault_code = "InterlockOpen"

WithoutLimitFaults(code) ==
    IF code \in {"PowerLimit", "CurrentLimit"} THEN "None" ELSE code

\* C7: a poll that samples valid = false never evaluates to PowerLimit or
\* CurrentLimit, and evaluates to the same digital, sensor or over-temperature
\* fault that the same inputs with valid = true evaluate to.
C7_ValidGatesOnlyLimits ==
    ~report.snapshot.valid =>
        /\ report.code \notin {"PowerLimit", "CurrentLimit"}
        /\ report.code =
              WithoutLimitFaults(FirstMatch(FaultPriorityList(
                  report.pins, [report.snapshot EXCEPT !.valid = TRUE])))

\* power and current both over their limits, valid false, nothing reported
C7_Witness ==
    /\ lock_holder["FAULT_STATE"] = "safety"
    /\ ~report.snapshot.valid
    /\ report.snapshot.coil_power_kw > PowerFaultThreshold
    /\ report.snapshot.coil_current_rms_a > CURRENT_LIMIT_A
    /\ FirstMatch(FaultPriorityList(report.pins,
                                    [report.snapshot EXCEPT !.valid = TRUE])) = "PowerLimit"
    /\ report.code = "None"
    /\ fault_code = "None"

\* C8: after every completed safety poll the stored fault code is the code
\* evaluated from the inputs of that poll: an earlier code is neither latched
\* nor waits for an acknowledgment.
C8_StoredIsEvaluated ==
    /\ fault_code = evaluate_fault(report.pins, report.snapshot)
    /\ fault_code = report.code

\* a poll found a fault stored and no condition left, and stored None
C8_Witness ==
    /\ lock_holder["FAULT_STATE"] = "safety"
    /\ report.stored_before \notin {"None"}
    /\ report.code = "None"
    /\ fault_code = "None"

\* a poll found fault X stored and a different fault Y evaluated, and stored Y
C8_WitnessReplaced ==
    /\ report.stored_before = "CoilOverTemp"
    /\ report.code = "InterlockOpen"
    /\ fault_code = "InterlockOpen"

----------------------------------------------------------------------------
(* The control loop's body on its own: one tick of control_task for every  *)
(* combination of the values its reads return                              *)

\* measured powers and object temperatures one smoothed store apart
\* (sensors.rs:245-251): 5 kW after a 0 kW sample is 4 kW, 130 C after a
\* 30 C sample is 110 C
PowerInputs       == {kW(4), kW(5)}
ObjectTempInputs  == {degC(110), degC(130)}
FaultInputs       == {"None", "InterlockOpen"}

\* the settings record with each mode selected
ModeSettings == { set_mode(ControlSettings_new, m) : m \in ControlMode }

\* the measurement record with the two fields a tick reads
TickMeasurements(powers, temps) ==
    { [Measurements_boot EXCEPT !.coil_power_kw = p, !.object_temp_c = t] :
        p \in powers, t \in temps }

\* a step that completes one tick
TickDone == tick'.n = tick.n + 1

TickNext ==
    /\ tick.n < MaxTicks
    /\ \E s \in ModeSettings, fault \in FaultInputs, level_low \in BOOLEAN,
          m \in TickMeasurements(PowerInputs, ObjectTempInputs) :
          ControlBody(s, fault, level_low, m)

TickSpec == Init /\ [][TickNext]_vars

\* The control loop in the middle of a run: RunningTicks ticks in ManualPower
\* with the run button held, 5 kW set and the measurement record as it is
\* before adc_task's first store, and then ticks on any inputs
RunningTicks == 8

RampTick ==
    /\ tick.n < RunningTicks
    /\ ControlBody(ControlSettings_new, "None", TRUE, Measurements_boot)

RunningTick ==
    /\ tick.n >= RunningTicks
    /\ tick.n < RunningTicks + MaxTicks
    /\ \E s \in ModeSettings, fault \in FaultInputs, level_low \in BOOLEAN,
          m \in TickMeasurements(PowerInputs, {0}) :
          ControlBody(s, fault, level_low, m)

RunningNext == RampTick \/ RunningTick

RunningSpec == Init /\ [][RunningNext]_vars

\* C12: at the end of every tick the solenoid output is on exactly when the
\* tick's mode was Cooldown, and a tick in Idle or Cooldown leaves the PWM
\* disabled, both enable lines low and run_active false.
C12_SolenoidAndOutputs ==
    tick.n > 0 =>
        /\ solenoid <=> tick.mode = "Cooldown"
        /\ tick.mode \in {"Idle", "Cooldown"} =>
               ~pwm.enabled /\ ~pwm_running /\ ~hs_enable /\ ~ls_enable /\ ~run_active

\* a Cooldown tick that took over from a running inverter
C12_Witness ==
    /\ tick.n > 0
    /\ tick.mode = "Cooldown"
    /\ tick.was_running
    /\ solenoid /\ ~pwm.enabled /\ ~hs_enable /\ ~ls_enable /\ ~run_active

\* C13: every published status record is consistent with one tick:
\* cooldown_active iff mode is Cooldown; run_active only in a heating mode
\* with fault None; heating_enabled only with run_active; target_reached only
\* in Temperature mode; the setpoint within [0, POWER_LIMIT_KW]; mode and
\* fault are the ones the tick read.
C13_StatusSnapshot ==
    /\ status.cooldown_active <=> status.mode = "Cooldown"
    /\ status.run_active => HeatingMode(status.mode) /\ status.fault = "None"
    /\ status.heating_enabled => status.run_active
    /\ status.target_reached => status.mode = "Temperature"
    /\ status.power_setpoint_kw >= 0 /\ status.power_setpoint_kw <= POWER_LIMIT_KW
    /\ tick.n > 0 => /\ status.mode = tick.mode
                     /\ status.fault = tick.fault
                     /\ status.heating_enabled = tick.heating
                     /\ status.run_active = run_active

\* the published record of a heating Temperature tick at the target
C13_Witness ==
    /\ tick.n > 0
    /\ status.mode = "Temperature"
    /\ status.run_active /\ status.heating_enabled
    /\ status.target_reached
    /\ status.power_setpoint_kw = 0

\* object temperatures around the lower edge of the band of the default
\* 120.0 degC target: 117.9, 118.0 and 119.0 degC
ThresholdTemps == {degC(118) - 1, degC(118), degC(119)}

\* the control loop from boot, fed object temperatures around the band edge
TempNext ==
    /\ tick.n < MaxTicks
    /\ \E s \in ModeSettings, fault \in FaultInputs, level_low \in BOOLEAN,
          m \in TickMeasurements({0}, ThresholdTemps) :
          ControlBody(s, fault, level_low, m)

TempSpec == Init /\ [][TempNext]_vars

\* C14: the target_reached flag a tick publishes is true exactly when the
\* tick ran in Temperature mode and its object temperature snapshot was at or
\* above target - 2 degC (the target stays at its 120 degC default here):
\* false at 117.9, true at 118.0 and 119.0, whatever the fault code and
\* run_active are; false in every other mode.
C14_TargetReachedBand ==
    tick.n > 0 =>
        /\ status.target_reached <=>
               /\ tick.mode = "Temperature"
               /\ tick.object_temp >= tick.settings.target_temp_c - degC(2)
        /\ tick.mode = "Temperature" =>
               /\ tick.object_temp = degC(118) - 1 => ~status.target_reached
               /\ tick.object_temp \in {degC(118), degC(119)} => status.target_reached

\* exactly on the edge, during a fault and with the run latch off
C14_Witness ==
    /\ tick.n > 0
    /\ tick.settings.target_temp_c = degC(120)
    /\ tick.mode = "Temperature" /\ tick.object_temp = degC(118)
    /\ tick.fault # "None" /\ ~status.run_active
    /\ status.target_reached

\* C15: a step of a task that only reads MEASUREMENTS (the safety monitor,
\* the control loop, the menu) leaves the record as it was, so reads with no
\* sensor write between them see the same values.
C15_ReadsLeaveMeasurements ==
    [][SafetyTask \/ ControlRun \/ ControlWait \/ MenuStart \/ MenuWait
       => meas' = meas]_vars

\* the control loop has read the record and the safety monitor has read it on
\* two polls in a row, after the sensors wrote non-default values
C15_Witness ==
    /\ tick.n = 1 /\ HeatingMode(tick.mode)
    /\ meas.valid /\ meas.coil_temp_disconnected
    /\ report.stored_before = "SensorFault" /\ report.code = "SensorFault"

\* C16: a sensor poll whose read fails (ADS7828, MLX90614, ADC DMA) leaves
\* every field of MEASUREMENTS and the fault record as they were, and the
\* task goes on to wait for its next period.
C16_FailedReadWritesNothing ==
    [][/\ AdsPollErr => meas' = meas /\ fault_code' = fault_code /\ pc'["ads"] = "timer"
       /\ MlxPollErr => meas' = meas /\ fault_code' = fault_code /\ pc'["mlx"] = "timer"
       /\ AdcPollErr => meas' = meas /\ fault_code' = fault_code /\ pc'["adc"] = "timer"]_vars

\* during the first round of polls: the MLX90614 read succeeded and the
\* ADS7828 read failed, so the record holds the object temperature and
\* nothing of the ADS7828 channels, and both tasks wait on their timers
C16_Witness ==
    /\ pc["ads"] = "timer" /\ pc["mlx"] = "timer" /\ pc["safety"] = "start"
    /\ sensor_writes = 1
    /\ meas.object_temp_c = degC(119)
    /\ meas.pcb_temp_c = 0 /\ meas.coil_temp_c = 0 /\ ~meas.coil_temp_disconnected
    /\ fault_code = "None"

\* the fields of MEASUREMENTS outside `fields` are the same in m and n
SameOutside(m, n, fields) == \A f \in (DOMAIN m) \ fields : m[f] = n[f]

\* C17: each sensor task's step changes only that task's fields of
\* MEASUREMENTS, as one read-modify-write of the record as it is at that step.
C17_OwnFieldsOnly ==
    [][/\ AdcTask => SameOutside(meas, meas', {"dc_voltage_v", "coil_current_rms_a",
                                               "coil_power_kw", "valid"})
       /\ AdsTask => SameOutside(meas, meas', {"coil_temp_disconnected", "coil_temp_c",
                                               "pcb_temp_c"})
       /\ MlxTask => SameOutside(meas, meas', {"object_temp_c"})
       /\ SicTempTask => SameOutside(meas, meas', {"module_temp_c"})]_vars

\* two tasks have written one after the other and both updates are in the record
C17_Witness ==
    /\ sensor_writes = 2
    /\ meas.module_temp_c = degC(30)
    /\ meas.coil_temp_c = degC(90) /\ meas.pcb_temp_c = degC(30)
    /\ ~meas.valid /\ meas.object_temp_c = 0

\* C18: a successful ADS7828 poll sets coil_temp_disconnected to (coil sense
\* voltage >= 4.5 V), whatever the flag was before, and leaves coil_temp_c
\* alone when it sets the flag; a safety poll that finds the flag set and no
\* digital fault evaluates and stores SensorFault.
C18_DisconnectFlag ==
    [][/\ \A raw \in AdsReadings :
             AdsPollOk(raw) =>
                /\ meas'.coil_temp_disconnected <=>
                       code_to_voltage(raw.ch6) >= COIL_SENSOR_DISCONNECT_V
                /\ raw.ch6 = 3685 => ~meas'.coil_temp_disconnected
                /\ raw.ch6 = 3686 => meas'.coil_temp_disconnected
                /\ meas'.coil_temp_disconnected => meas'.coil_temp_c = meas.coil_temp_c
       /\ (SafetyTask /\ meas.coil_temp_disconnected
                      /\ check_gpio_faults(gpio) = "None")
             => report'.code = "SensorFault" /\ fault_code' = "SensorFault"]_vars

\* the coil sensor read 90 degC (above the coil limit), then a poll saw its
\* input above 4.5 V: the 90 degC stays in the record and the safety poll
\* reports SensorFault, not CoilOverTemp
C18_Witness ==
    /\ meas.coil_temp_disconnected
    /\ meas.coil_temp_c = degC(90)
    /\ check_gpio_faults(gpio) = "None"
    /\ report.code = "SensorFault" /\ fault_code = "SensorFault"

\* converted sample pairs: 100 V and 300 V on the DC link; -10 A, 10 A and
\* 900 A in the coil
SamplePairs == { [v |-> v, i |-> i] : v \in {1000, 3000}, i \in {-amp(10), amp(10), amp(900)} }

\* windows of WindowLen pairs: one pair repeated, or two pairs alternating
SampleWindows ==
    { [k \in 1..WindowLen |-> IF k % 2 = 1 THEN p ELSE q] : p, q \in SamplePairs }

\* what each window yields (sensors.rs:114-137)
WindowResults == [w \in SampleWindows |-> window_result(w)]

\* sensors.rs:114-146: adc_task completes the window w of converted pairs
WindowPoll(w) ==
    /\ SensorBody("adc")
    /\ sensor_writes < MaxSensorWrites
    /\ meas' = adc_store(meas, WindowResults[w])
    /\ sensor_writes' = sensor_writes + 1
    /\ UNCHANGED bufVars

WindowNext == \E w \in SampleWindows : WindowPoll(w)

\* adc_task alone, fed windows of converted samples
WindowSpec == Init /\ [][WindowNext]_vars

\* r is sqrt(sum / n) to within one unit
RootOfMean(r, sum, n) ==
    /\ r >= 0
    /\ r = 0 \/ (r - 1) * (r - 1) * n <= sum
    /\ sum <= (r + 1) * (r + 1) * n

\* p is (sum / n) clamped to [0, 20 kW], to within one unit
ClampedMean(p, sum, n) ==
    IF sum <= 0 THEN p = 0
    ELSE IF sum >= n * kW(20) THEN p = kW(20)
    ELSE n * (p - 1) <= sum /\ sum <= n * (p + 1)

\* C19: the window result is sqrt(mean(v^2)), sqrt(mean(i^2)) and mean(v*i)
\* (in kW) clamped to [0, 20]; a window of identical pairs (100 V, 10 A)
\* gives 100 V, 10 A and 1.0 kW, which the first write stores unsmoothed.
C19_WindowResult ==
    [][\A w \in SampleWindows :
          WindowPoll(w) =>
             LET r == WindowResults[w]
                 n == Len(w)
             IN  /\ RootOfMean(r.vrms, SumSeq([k \in 1..n |-> w[k].v * w[k].v]), n)
                 /\ RootOfMean(r.irms, SumSeq([k \in 1..n |-> w[k].i * w[k].i]), n)
                 /\ ClampedMean(r.power_kw, SumSeq([k \in 1..n |-> w[k].v * w[k].i]), n)
                 /\ (\A k \in 1..n : w[k] = [v |-> 1000, i |-> amp(10)])
                       => r = [vrms |-> 1000, irms |-> amp(10), power_kw |-> kW(1)]
                 /\ sensor_writes = 0
                       => /\ meas'.dc_voltage_v = r.vrms
                          /\ meas'.coil_current_rms_a = r.irms
                          /\ meas'.coil_power_kw = r.power_kw]_vars

\* the first window held (100 V, 10 A) throughout
C19_Witness ==
    /\ sensor_writes = 1
    /\ meas.valid
    /\ meas.dc_voltage_v = 1000
    /\ meas.coil_current_rms_a = amp(10)
    /\ meas.coil_power_kw = kW(1)

\* coil sense voltages (mV); 2.5 V is the divider voltage at R = R0 = 10 kOhm
SenseVoltages == {500, 1000, 2000, 2500, 3000, 4000, 4500}

\* module thermistor resistances (ohm); R0 is 5 kOhm
ModuleResistances == {10, 1000, 2500, 3340, MODULE_NTC_R0, 10000, 17067}

\* what each input linearizes to (sensors.rs:154-160, 284-291)
CoilNtcConverted == [v \in SenseVoltages |-> ads_convert_volts(v, 800)]
ModuleNtcTemps == [r \in ModuleResistances |-> ntc_beta_temp(r)]

\* sensors.rs:153-180: a poll whose channel 6 reads v (the PCB channel 0.8 V)
CoilNtcPoll(v) ==
    /\ SensorBody("ads")
    /\ sensor_writes < MaxSensorWrites
    /\ meas' = ads_store(meas, CoilNtcConverted[v])
    /\ sensor_writes' = sensor_writes + 1
    /\ UNCHANGED bufVars

\* sensors.rs:229-235: a poll whose captures give the resistance r
ModuleNtcPoll(r) ==
    /\ SensorBody("sic")
    /\ sensor_writes < MaxSensorWrites
    /\ meas' = sic_store(meas, ModuleNtcTemps[r])
    /\ sensor_writes' = sensor_writes + 1
    /\ UNCHANGED bufVars

NtcNext ==
    \/ \E v \in SenseVoltages : CoilNtcPoll(v)
    \/ \E r \in ModuleResistances : ModuleNtcPoll(r)

\* the two thermistor tasks alone, fed sense voltages and resistances
NtcSpec == Init /\ [][NtcNext]_vars

\* C20: both thermistor linearizations return T0 = 25 degC at R = R0: the
\* coil NTC at a sense voltage of 2.5 V, the module NTC at 5 kOhm; the first
\* write of each stores that value.
C20_NtcAtR0 ==
    [][/\ CoilNtcPoll(2500) =>
             /\ CoilNtcConverted[2500].coil_temp_c = degC(25)
             /\ ~CoilNtcConverted[2500].coil_disconnected
             /\ meas.coil_temp_c = 0 => meas'.coil_temp_c = degC(25)
       /\ ModuleNtcPoll(MODULE_NTC_R0) =>
             /\ ModuleNtcTemps[MODULE_NTC_R0] = MODULE_NTC_T0_C
             /\ meas.module_temp_c = 0 => meas'.module_temp_c = degC(25)]_vars

\* both thermistors were read at R0
C20_Witness ==
    /\ sensor_writes = 2
    /\ meas.coil_temp_c = degC(25)
    /\ meas.module_temp_c = degC(25)
    /\ ~meas.coil_temp_disconnected

\* C11 as stated: a tick in ManualPower mode (not a mode change) that heats
\* with 5 kW set and 5 kW measured leaves the switching frequency where it
\* was before the tick, whatever the power controller's state is.
C11_SteadyFrequency ==
    [][/\ TickDone
       /\ tick'.settings.mode = "ManualPower" /\ last_mode = "ManualPower"
       /\ run_active' /\ tick'.fault = "None"
       /\ tick'.settings.manual_power_kw = kW(5) /\ tick'.measured_power = kW(5)
       => /\ power_ctrl'.freq_hz = power_ctrl.freq_hz
          /\ status'.switching_freq_hz = power_ctrl.freq_hz]_vars

\* C2: at the end of every tick whose fault snapshot is not None the run
\* latch is off, heating is off, both enable lines are low and the PWM output
\* is disabled, whatever the mode, the button and the previous tick were.
C2_FaultForcesOff ==
    tick.n > 0 /\ tick.fault # "None" =>
        /\ ~run_active
        /\ ~tick.heating
        /\ ~hs_enable
        /\ ~ls_enable
        /\ ~pwm.enabled
        /\ ~status.run_active
        /\ ~status.heating_enabled

\* a tick in a heating mode, button held, previous tick heating, read a fault
C2_Witness ==
    /\ tick.fault # "None"
    /\ tick.was_running
    /\ tick.button_low
    /\ HeatingMode(tick.mode)
    /\ ~tick.mode_changed
    /\ ~run_active /\ ~hs_enable /\ ~ls_enable /\ ~pwm.enabled

\* C3 as stated: at the end of a tick that saw a new mode both integrators
\* are 0, the run latch is off and heating is off, whatever the button did.
C3_AsStated ==
    tick.n > 0 /\ tick.mode_changed =>
        /\ temp_ctrl.integrator = 0
        /\ power_ctrl.integrator = 0
        /\ ~run_active
        /\ ~tick.heating

\* C3: a tick that sees a new mode resets both controllers and the run latch
\* before it evaluates the button and the new mode: at the end of the tick
\* each controller holds at most the one update made from its initial state
\* on that tick, and the run latch and heating are on exactly when that tick
\* accepted a button press in a heating mode with no fault.
C3_ResetBeforeEvaluation ==
    [][TickDone /\ tick'.settings.mode # last_mode =>
          /\ temp_ctrl' =
                IF tick'.settings.mode = "Temperature"
                THEN TemperatureController_update(TemperatureController_new,
                         tick'.settings.target_temp_c, tick'.object_temp)
                ELSE TemperatureController_new
          /\ power_ctrl' =
                IF tick'.heating
                THEN PowerController_update(PowerController_new(BASE_FREQUENCY_HZ),
                         status'.power_setpoint_kw, tick'.measured_power)
                ELSE PowerController_new(BASE_FREQUENCY_HZ)
          /\ run_active' = (/\ tick'.accepted
                            /\ HeatingMode(tick'.settings.mode)
                            /\ tick'.fault = "None")
          /\ tick'.heating = run_active']_vars

\* a tick that followed a heating tick saw the mode change to Temperature with
\* no press: latch and heating off, the temperature integrator one step from 0
C3_Witness ==
    /\ tick.mode_changed
    /\ tick.was_running
    /\ tick.mode = "Temperature"
    /\ ~tick.accepted
    /\ temp_ctrl.integrator > 0
    /\ power_ctrl = PowerController_new(BASE_FREQUENCY_HZ)
    /\ ~run_active /\ ~tick.heating

\* C10: whenever the PWM is enabled it was configured by a heating tick with a
\* frequency within [26000, 32000] Hz and the 512 ns deadtime, and after a
\* tick in ManualPower or Temperature mode that is not heating the PWM is
\* disabled and both enable lines are low.
C10_PwmOnlyWhenHeating ==
    /\ pwm.enabled =>
          /\ tick.heating
          /\ pwm.freq_hz >= 26000 /\ pwm.freq_hz <= 32000
          /\ pwm.deadtime_ns = 512
    /\ tick.n > 0 /\ HeatingMode(tick.mode) /\ ~tick.heating =>
          ~pwm.enabled /\ ~hs_enable /\ ~ls_enable

\* a heating tick configured the PWM at the upper frequency clamp, and the
\* next tick, in a heating mode but not heating, disabled it
C10_Witness ==
    /\ tick.was_running
    /\ HeatingMode(tick.mode)
    /\ ~tick.mode_changed
    /\ ~tick.heating
    /\ tick.n = RunningTicks + 2
    /\ pwm.freq_hz = 32000 /\ pwm.deadtime_ns = 512
    /\ ~pwm.enabled /\ ~hs_enable /\ ~ls_enable

----------------------------------------------------------------------------
(* The two controllers alone: any sequence of update and reset calls *)

MaxCalls == 3

\* integrator states long runs of control_task reach: 2631 ticks at +9.5 kW
\* of error, 1282 ticks at -19.5 kW, 333 ticks at 100 C below the target
PowerControllerStates ==
    { PowerController_new(BASE_FREQUENCY_HZ),
      [freq_hz |-> MAX_FREQUENCY_HZ, integrator |-> 1999560],
      [freq_hz |-> MIN_FREQUENCY_HZ, integrator |-> -1999920] }
TemperatureControllerStates ==
    { TemperatureController_new, [integrator |-> 999000] }

CtrlSetpoints     == {0, kW(10)}
CtrlMeasuredPower == {-kW(3000), 0, kW(4), kW(3000)}
CtrlTargets       == {degC(50), degC(350)}
CtrlMeasuredTemps == {-degC(273), 0, degC(130), degC(1037)}

CtrlInit ==
    /\ Constructed
    /\ power_ctrl \in PowerControllerStates
    /\ temp_ctrl \in TemperatureControllerStates
    /\ pc = [t \in Tasks |-> "start"]

ctrlFrame ==
    <<recVars, gpio, report, run_active, last_button_low, last_toggle,
      pwm_running, last_mode, ctl_settings, outVars, menu, sensor_writes,
      bufVars, pc, lock_holder, now>>

\* control.rs:121
PowerUpdateCall ==
    /\ tick.n < MaxCalls
    /\ \E sp \in CtrlSetpoints, m \in CtrlMeasuredPower :
          power_ctrl' = PowerController_update(power_ctrl, sp, m)
    /\ tick' = [tick EXCEPT !.n = @ + 1]
    /\ UNCHANGED <<temp_ctrl, ctrlFrame>>

\* control.rs:99
TempUpdateCall ==
    /\ tick.n < MaxCalls
    /\ \E tg \in CtrlTargets, m \in CtrlMeasuredTemps :
          temp_ctrl' = TemperatureController_update(temp_ctrl, tg, m)
    /\ tick' = [tick EXCEPT !.n = @ + 1]
    /\ UNCHANGED <<power_ctrl, ctrlFrame>>

\* control.rs:48
PowerResetCall ==
    /\ power_ctrl' = PowerController_reset(power_ctrl, BASE_FREQUENCY_HZ)
    /\ power_ctrl' # power_ctrl
    /\ UNCHANGED <<temp_ctrl, tick, ctrlFrame>>

\* control.rs:49
TempResetCall ==
    /\ temp_ctrl' = TemperatureController_reset(temp_ctrl)
    /\ temp_ctrl' # temp_ctrl
    /\ UNCHANGED <<power_ctrl, tick, ctrlFrame>>

CtrlNext == PowerUpdateCall \/ TempUpdateCall \/ PowerResetCall \/ TempResetCall

CtrlSpec == CtrlInit /\ [][CtrlNext]_vars

\* C9: over any sequence of updates and resets, with any errors, the
\* temperature controller's integrator stays within [0, 10] kW and the power
\* controller's integrator within [-2000, 2000] Hz.
C9_IntegratorBounds ==
    /\ temp_ctrl.integrator >= 0
    /\ temp_ctrl.integrator <= kW(10)
    /\ power_ctrl.integrator >= -Hz(2000)
    /\ power_ctrl.integrator <= Hz(2000)

\* updates have driven both integrators onto their upper bounds
C9_Witness ==
    /\ tick.n >= 2
    /\ temp_ctrl.integrator = kW(10)
    /\ power_ctrl.integrator = Hz(2000)

----------------------------------------------------------------------------
(* The fault record's transitions *)

\* C21: a safety poll assigns the fault record only when the code it
\* evaluated differs from the stored code; a poll that evaluates the stored
\* code leaves the record as it is and logs neither "Fault detected" nor
\* "Fault cleared", and a poll that evaluates another code logs exactly one
\* of the two.
C21_WriteOnlyOnChange ==
    [][SafetyBody(report'.pins, report'.snapshot) =>
          IF evaluate_fault(report'.pins, report'.snapshot) = fault_code
          THEN /\ fault_code' = fault_code
               /\ ~report'.wrote
               /\ report'.event = "none"
          ELSE /\ report'.wrote
               /\ fault_code' # fault_code
               /\ report'.event =
                     IF evaluate_fault(report'.pins, report'.snapshot) = "None"
                     THEN "cleared" ELSE "detected"]_vars

\* a poll found InterlockOpen stored, evaluated InterlockOpen again and
\* neither wrote nor logged
C21_Witness ==
    /\ lock_holder["FAULT_STATE"] = "safety"
    /\ report.stored_before = "InterlockOpen"
    /\ report.code = "InterlockOpen"
    /\ fault_code = "InterlockOpen"
    /\ ~report.wrote
    /\ report.event = "none"

----------------------------------------------------------------------------
(* The run button: control_task some time after a press was taken *)

\* ticks between the press and the end of the quiet time, 60 ms after it
QuietTicks == 6

\* a press is taken while the interlock is open: toggled at line 60,
\* cancelled at line 74, last_toggle set at line 63
PressTick ==
    /\ tick.n = 0
    /\ ControlBody(ControlSettings_new, "InterlockOpen", TRUE, Measurements_boot)

\* the button is released and the interlock has closed
QuietTick ==
    /\ tick.n >= 1 /\ tick.n < QuietTicks
    /\ ControlBody(ControlSettings_new, "None", FALSE, Measurements_boot)

\* ticks around the end of the debounce window, on any inputs
DebounceTick ==
    /\ tick.n >= QuietTicks /\ tick.n <= QuietTicks + MaxTicks
    /\ \E s \in ModeSettings, fault \in FaultInputs, level_low \in BOOLEAN :
          ControlBody(s, fault, level_low, Measurements_boot)

DebounceNext == PressTick \/ QuietTick \/ DebounceTick

DebounceSpec == Init /\ [][DebounceNext]_vars

\* C22: a tick turns run_active from false to true only if it sees the run
\* button low after the previous tick saw it high, at least 80 ms after the
\* last press that passed the debounce, in ManualPower or Temperature mode.
\* A tick that sees the button held low as on the previous tick never toggles
\* run_active, and a press edge seen inside the 80 ms window is consumed:
\* the tick records the button as low and keeps last_toggle, so that no later
\* tick of the same press can toggle.
C22_DebouncedPress ==
    [][TickDone =>
          /\ (~run_active /\ run_active') =>
                /\ tick'.button_low /\ ~last_button_low
                /\ now - last_toggle >= 80
                /\ tick'.settings.mode \in {"ManualPower", "Temperature"}
          /\ (tick'.button_low /\ last_button_low) =>
                /\ ~(~run_active /\ run_active')
                /\ run_active' => run_active
                /\ last_toggle' = last_toggle
          /\ (tick'.button_low /\ ~last_button_low /\ now - last_toggle < 80) =>
                /\ last_button_low'
                /\ last_toggle' = last_toggle
                /\ run_active' => (run_active /\ tick'.settings.mode = last_mode)]_vars

\* a press seen 70 ms after the last one was discarded and the button was
\* still held on the next tick, 80 ms after it: run_active is still false
C22_Witness ==
    /\ tick.n = QuietTicks + 3
    /\ tick.button_low /\ ~tick.edge /\ ~tick.accepted
    /\ tick.since_toggle = RUN_DEBOUNCE
    /\ last_toggle = now - (QuietTicks + 3) * CONTROL_PERIOD
    /\ HeatingMode(tick.mode) /\ tick.fault = "None" /\ ~tick.mode_changed
    /\ ~run_active /\ ~hs_enable

\* a press seen exactly 80 ms after the last one started the run
C22_WitnessAccepted ==
    /\ tick.n > 0
    /\ tick.edge /\ tick.button_low /\ tick.accepted
    /\ tick.since_toggle = RUN_DEBOUNCE
    /\ run_active /\ hs_enable

----------------------------------------------------------------------------
(* The heating decision and the outputs that follow it *)

\* C23: on a tick in ManualPower or Temperature mode, heating is true exactly
\* when run_active is true after the fault and mode check and the fault code
\* read on that tick is None; at the end of every tick, in any mode, the
\* high-side enable, the low-side enable, the pwm_running flag and the
\* published heating_enabled all equal the tick's heating.
C23_HeatingAndOutputs ==
    [][TickDone =>
          /\ tick'.settings.mode \in {"ManualPower", "Temperature"} =>
                (tick'.heating <=> (run_active' /\ tick'.fault = "None"))
          /\ tick'.settings.mode \in {"Idle", "Cooldown"} => ~tick'.heating
          /\ hs_enable' = tick'.heating
          /\ ls_enable' = tick'.heating
          /\ pwm_running' = tick'.heating
          /\ status'.heating_enabled = tick'.heating]_vars

\* a Temperature tick with the run latch set and no fault heats, with both
\* enable lines high, the PWM running and heating_enabled published
C23_Witness ==
    /\ tick.n > 0
    /\ tick.mode = "Temperature" /\ tick.fault = "None"
    /\ run_active /\ tick.heating
    /\ hs_enable /\ ls_enable /\ pwm_running /\ pwm.enabled
    /\ status.heating_enabled

----------------------------------------------------------------------------
(* The manual power setting: ticks on the settings the menu can store *)

\* menu.rs:161-168: the manual power stays within [0, POWER_LIMIT_KW]
ManualSettings ==
    { set_manual_power(set_mode(ControlSettings_new, m), p) :
        m \in {"ManualPower", "Temperature"},
        p \in {0, MANUAL_STEP_KW, POWER_LIMIT_KW} }

SetpointNext ==
    /\ tick.n < MaxTicks
    /\ \E s \in ManualSettings, fault \in FaultInputs, level_low \in BOOLEAN :
          ControlBody(s, fault, level_low, Measurements_boot)

SetpointSpec == Init /\ [][SetpointNext]_vars

\* C24: every tick whose settings snapshot has mode ManualPower publishes
\* that mode together with power_setpoint_kw equal to the manual_power_kw of
\* the same snapshot clamped to [0, 10] kW, whether the tick heats or not.
C24_ManualSetpoint ==
    [][TickDone /\ tick'.settings.mode = "ManualPower" =>
          /\ status'.mode = "ManualPower"
          /\ status'.power_setpoint_kw =
                IF tick'.settings.manual_power_kw < 0 THEN 0
                ELSE IF tick'.settings.manual_power_kw > kW(10) THEN kW(10)
                ELSE tick'.settings.manual_power_kw]_vars

\* a ManualPower tick with the run latch off, not heating, published the
\* 10 kW of its settings snapshot
C24_Witness ==
    /\ tick.n > 0
    /\ tick.mode = "ManualPower" /\ ~run_active /\ ~tick.heating
    /\ tick.settings.manual_power_kw = POWER_LIMIT_KW
    /\ status.power_setpoint_kw = kW(10)
    /\ status.mode = "ManualPower"

\* a heating ManualPower tick published the 0 kW of its settings snapshot
C24_WitnessHeating ==
    /\ tick.n > 0
    /\ tick.mode = "ManualPower" /\ tick.heating
    /\ tick.settings.manual_power_kw = 0
    /\ status.power_setpoint_kw = 0

----------------------------------------------------------------------------
(* Exponential smoothing alone: samples stored one after the other *)

SmoothSteps == 3

\* samples in 0.1 C: 4 C and -16 C (4 C smoothed with -16 C is 0), 0.1 C,
\* 25 C, 100 C, and one non-finite sample
SmoothInputs ==
    {degC(4), -degC(16), 1, degC(25), degC(100), 2000000001}

\* sensors.rs:194-196 with the reading t
SmoothPoll(t) ==
    /\ SensorBody("mlx")
    /\ sensor_writes < SmoothSteps
    /\ meas' = mlx_write(meas, t)
    /\ sensor_writes' = sensor_writes + 1
    /\ UNCHANGED bufVars

SmoothNext == \E t \in SmoothInputs : SmoothPoll(t)

SmoothSpec == Init /\ [][SmoothNext]_vars

\* C25: an update whose stored previous value is exactly 0 or not finite
\* stores the new sample as it is, on the first sample and on every later
\* one; any other update stores previous + 0.2 * (new - previous), to the
\* nearest 0.1 C.
C25_SmoothingBypass ==
    [][\A t \in SmoothInputs :
          SmoothPoll(t) =>
             LET p == meas.object_temp_c
                 r == meas'.object_temp_c
             IN  IF p = 0 \/ p \in NonFinite THEN r = t
                 ELSE IF t \in NonFinite THEN r = t
                 ELSE /\ 5 * r - (4 * p + t) <= 2
                      /\ (4 * p + t) - 5 * r <= 2]_vars

\* the stored value is back at exactly 0 after two updates: 4 C adopted from
\* the initial 0, then smoothed with -16 C (no sample is 0)
C25_WitnessBackAtZero ==
    /\ 0 \notin SmoothInputs
    /\ sensor_writes = 2
    /\ meas.object_temp_c = 0

\* the third update has stored its 100 C sample unsmoothed
C25_Witness ==
    /\ sensor_writes = 3
    /\ meas.object_temp_c = degC(100)

----------------------------------------------------------------------------
(* The module temperature input alone: averaged duty cycles (1e-4)         *)

\* duties around the two calibration points 0.10 and 0.88 and between them
DutySamples ==
    {0, 500, 999, 1000, 1001, 2000, 2500, 3000, 3500, 4000, 4900, 5500, 6254,
     7000, 7500, 8799, 8800, 8801, 9500, 10000}

\* sensors.rs:227-230: the voltage and the module temperature of each duty
DutyConverted ==
    [d \in DutySamples |->
        [voltage |-> duty_to_voltage(d), module_temp_c |-> sic_convert(d)]]

\* sensors.rs:227-235: a poll whose 128 captures average to duty d
DutyPoll(d) ==
    /\ SensorBody("sic")
    /\ sensor_writes < MaxSensorWrites
    /\ meas' = sic_store(meas, DutyConverted[d].module_temp_c)
    /\ sensor_writes' = sensor_writes + 1
    /\ UNCHANGED bufVars

DutyNext == \E d \in DutySamples : DutyPoll(d)

DutySpec == Init /\ [][DutyNext]_vars

\* C26: the duty-to-voltage mapping gives 4.5 V for every duty up to 0.10
\* and 0.6 V for every duty from 0.88; between the two it is the straight
\* line through them (0.5 mV less per 1e-4 of duty), so a larger duty never
\* gives a larger voltage, and every output is within [0.6, 4.5] V.
C26_DutyToVoltage ==
    [][\A d \in DutySamples :
          DutyPoll(d) =>
             LET v == DutyConverted[d].voltage
             IN  /\ d <= 1000 => v = 4500
                 /\ d >= 8800 => v = 600
                 /\ v >= 600 /\ v <= 4500
                 /\ (d >= 1000 /\ d <= 8800) =>
                        /\ 2 * v - (10000 - d) <= 1
                        /\ (10000 - d) - 2 * v <= 1
                 /\ \A e \in DutySamples :
                        e >= d => DutyConverted[e].voltage <= v]_vars

\* a duty of 0.6254 was converted to 1.873 V and stored as 30.0 C
C26_Witness ==
    /\ sensor_writes = 1
    /\ DutyConverted[6254].voltage = 1873
    /\ DutyConverted[6254].module_temp_c = degC(30)
    /\ meas.module_temp_c = DutyConverted[6254].module_temp_c
    /\ meas.module_temp_c > 0

----------------------------------------------------------------------------
(* Mutex guards: the order in which each task locks and drops the records  *)
(* between two suspensions                                                 *)

\* `X.lock().await` followed by the drop of the guard (a temporary, a block's
\* local or an explicit drop) before the next lock
lock_unlock(r) == << [op |-> "lock", rec |-> r], [op |-> "drop", rec |-> r] >>

\* the records whose guards are alive after the guard operations of script
RECURSIVE HeldAfter(_, _)
HeldAfter(held, script) ==
    IF script = <<>> THEN held
    ELSE HeldAfter(IF Head(script).op = "lock" THEN held \cup {Head(script).rec}
                                               ELSE held \ {Head(script).rec},
                   Tail(script))

\* the largest number of guards alive at once while script runs
RECURSIVE MaxHeld(_, _)
MaxHeld(held, script) ==
    IF script = <<>> THEN Cardinality(held)
    ELSE LET rest == MaxHeld(HeldAfter(held, <<Head(script)>>), Tail(script))
         IN  IF Cardinality(held) > rest THEN Cardinality(held) ELSE rest

\* sensors.rs:140-145, 163-175, 195-197, 233-236: the block around one store
sensor_locks == lock_unlock("MEASUREMENTS")

\* safety.rs:28-90, 108: the guard of line 32 is dropped at the end of the
\* loop body, after the timer, and taken again in the next pass
safety_locks(holding) ==
    (IF holding THEN << [op |-> "drop", rec |-> "FAULT_STATE"] >> ELSE <<>>)
    \o lock_unlock("MEASUREMENTS")
    \o << [op |-> "lock", rec |-> "FAULT_STATE"] >>

\* control.rs:43-45, 94-97, 142: resumed is true when the pass continues in
\* current_fault(), blocked when it suspends there
control_locks(mode, resumed, blocked) ==
    (IF resumed THEN <<>> ELSE lock_unlock("CONTROL_SETTINGS"))
    \o (IF blocked THEN <<>>
        ELSE lock_unlock("FAULT_STATE")
             \o (IF HeatingMode(mode) THEN lock_unlock("MEASUREMENTS") ELSE <<>>)
             \o lock_unlock("CONTROL_STATUS"))

\* variant: the status screens keep their guards in locals until the pass ends
menu_locks_keeping_guards(at, screen, fault) ==
    IF at = "screen" /\ screen \in {"ManualStatus", "TemperatureStatus"}
    THEN << [op |-> "lock", rec |-> "CONTROL_STATUS"],
            [op |-> "lock", rec |-> "MEASUREMENTS"],
            [op |-> "drop", rec |-> "MEASUREMENTS"],
            [op |-> "drop", rec |-> "CONTROL_STATUS"] >>
    ELSE lock_unlock("CONTROL_SETTINGS")

\* menu.rs:39-74 (loop top), the screen functions up to their return, and
\* fault_screen (351-354)
menu_locks(at, screen, fault) ==
    CASE at = "top" ->
            lock_unlock("FAULT_STATE")
            \o (IF fault = "None" THEN lock_unlock("CONTROL_SETTINGS")
                ELSE lock_unlock("FAULT_STATE") \o lock_unlock("MEASUREMENTS"))
      [] at = "fault_screen" ->
            lock_unlock("FAULT_STATE")
            \o (IF fault = "None" THEN <<>> ELSE lock_unlock("MEASUREMENTS"))
      [] at = "screen" ->
            CASE screen = "ModeSelect"        -> <<>>
              [] screen = "ManualConfig"      -> lock_unlock("CONTROL_SETTINGS")
              [] screen = "ManualStatus"      ->
                    lock_unlock("CONTROL_STATUS") \o lock_unlock("MEASUREMENTS")
              [] screen = "TemperatureConfig" -> lock_unlock("CONTROL_SETTINGS")
              [] screen = "TemperatureStatus" ->
                    lock_unlock("CONTROL_STATUS") \o lock_unlock("MEASUREMENTS")
                    \o lock_unlock("CONTROL_SETTINGS")
              [] screen = "Cooldown"          -> lock_unlock("CONTROL_SETTINGS")

HeldBy(t) == {r \in Records : lock_holder[r] = t}

\* the guards of the step's script never overlap, and the guards alive when
\* the task suspends are the ones the script leaves
OneGuardAtATime(t, script) ==
    /\ MaxHeld(HeldBy(t), script) <= 1
    /\ HeldAfter(HeldBy(t), script) = {r \in Records : lock_holder'[r] = t}

\* C27: in every step of every task the guards of the shared records are
\* taken one after the other, each dropped before the next is locked, so no
\* task ever holds two record locks; a task suspended on a lock holds none,
\* and the holder of the lock it waits for is not itself waiting for a lock,
\* so there is no cycle of tasks waiting for each other.
C27_OneLockAtATime ==
    /\ \A at \in {"top", "screen", "fault_screen"}, screen \in Screen,
          fault \in FaultCode :
          /\ MaxHeld({}, menu_locks(at, screen, fault)) <= 1
          /\ HeldAfter({}, menu_locks(at, screen, fault)) = {}
    /\ [][/\ SafetyTask =>
                OneGuardAtATime("safety",
                                safety_locks(lock_holder["FAULT_STATE"] = "safety"))
          /\ ControlRun =>
                OneGuardAtATime("control",
                    control_locks(IF pc["control"] = "wait_fault"
                                  THEN ctl_settings.mode ELSE settings.mode,
                                  pc["control"] = "wait_fault", FALSE))
          /\ ControlWait =>
                OneGuardAtATime("control", control_locks(settings.mode, FALSE, TRUE))
          /\ (\E t \in MlxReadings : MlxPollOk(t)) =>
                OneGuardAtATime("mlx", sensor_locks)
          /\ \A t \in Tasks :
                /\ Cardinality({r \in Records : lock_holder'[r] = t}) <= 1
                /\ pc'[t] = "wait_fault" =>
                      /\ {r \in Records : lock_holder'[r] = t} = {}
                      /\ lock_holder'["FAULT_STATE"] \in Tasks
                      /\ pc'[lock_holder'["FAULT_STATE"]] # "wait_fault"]_vars

\* the control loop has run a heating tick and a sensor has stored a value;
\* now the control loop and the menu both wait for the fault record, whose
\* guard the safety monitor holds while it waits on its timer
C27_Witness ==
    /\ tick.n = 1 /\ HeatingMode(tick.mode)
    /\ sensor_writes > 0
    /\ lock_holder["FAULT_STATE"] = "safety"
    /\ pc["safety"] = "timer"
    /\ pc["control"] = "wait_fault"
    /\ pc["menu"] = "wait_fault"
    /\ \A r \in Records \ {"FAULT_STATE"} : lock_holder[r] = "none"

----------------------------------------------------------------------------
(* The run latch after a fault *)

\* C28: a tick under a fault leaves run_active false, and from then on every
\* tick that starts with run_active false and does not see a qualifying
\* press (button low after high, 80 ms after the last accepted press, mode
\* ManualPower or Temperature) ends with run_active false, no heating, both
\* enable lines low and the PWM not running, whether the fault record still
\* holds a fault or has returned to None.
C28_NoResumeAfterFault ==
    [][TickDone =>
          /\ tick'.fault # "None" => ~run_active' /\ ~tick'.heating
          /\ (/\ ~run_active
              /\ ~(/\ tick'.button_low /\ ~last_button_low
                   /\ now - last_toggle >= 80
                   /\ tick'.settings.mode \in {"ManualPower", "Temperature"}))
             => /\ ~run_active' /\ ~status'.run_active
                /\ ~tick'.heating /\ ~status'.heating_enabled
                /\ ~hs_enable' /\ ~ls_enable' /\ ~pwm_running']_vars

\* the run was heating in ManualPower with the button held; the first tick
\* was cancelled by a fault, the fault record is back at None on the second
\* tick, and the second tick did not heat
C28_Witness ==
    /\ tick.n = RunningTicks + 2
    /\ tick.mode = "ManualPower" /\ ~tick.mode_changed
    /\ ~tick.was_running
    /\ tick.button_low /\ ~tick.edge
    /\ tick.fault = "None"
    /\ ~run_active /\ ~tick.heating /\ ~hs_enable /\ ~ls_enable /\ ~pwm.enabled

----------------------------------------------------------------------------
(* The valid flag of the measurement record *)

\* C29: measurements.valid is false in the constructed record, is true after
\* every completed RMS window, is set only by a completed window, and no
\* step of any task sets it back to false, a failed ADC DMA read included.
C29_ValidMonotonic ==
    /\ ~meas.valid
    /\ [][/\ meas.valid => meas'.valid
          /\ (\E b \in AdcWindows : AdcPollOk(b)) => meas'.valid
          /\ (~meas.valid /\ meas'.valid) => \E b \in AdcWindows : AdcPollOk(b)
          /\ AdcPollErr => meas'.valid = meas.valid]_vars

\* a window of 300 V and 20.6 A was stored, the coil sensor was then found
\* disconnected and the safety monitor stored SensorFault: valid is still true
C29_Witness ==
    /\ meas.valid
    /\ meas.dc_voltage_v > 0 /\ meas.coil_power_kw > 0
    /\ sensor_writes = 2
    /\ meas.coil_temp_disconnected
    /\ fault_code = "SensorFault"

----------------------------------------------------------------------------
(* Which ticks update and which reset the two controllers *)

\* C30: a tick resets both controllers exactly when its mode differs from
\* the previous tick's mode.  After that, a Temperature tick updates the
\* temperature controller with the tick's target and object temperature
\* whether it heats or not, and no other tick changes it; the power
\* controller is updated on the ticks that heat and is left as it is on the
\* ticks that do not, also when the run latch went off or a fault cancelled
\* the run on that tick.
C30_ControllerUpdates ==
    [][TickDone =>
          LET changed == tick'.settings.mode # last_mode
              tc0 == IF changed THEN [integrator |-> 0] ELSE temp_ctrl
              pc0 == IF changed THEN [freq_hz |-> Hz(29700), integrator |-> 0]
                                ELSE power_ctrl
          IN  /\ tick'.settings.mode = "Temperature" =>
                    temp_ctrl' = TemperatureController_update(
                                    tc0, tick'.settings.target_temp_c, tick'.object_temp)
              /\ tick'.settings.mode # "Temperature" => temp_ctrl' = tc0
              /\ tick'.heating =>
                    power_ctrl' = PowerController_update(
                                     pc0, status'.power_setpoint_kw, tick'.measured_power)
              /\ ~tick'.heating => power_ctrl' = pc0]_vars

\* two Temperature ticks at 117.9 C under a fault: neither heated, the
\* temperature integrator has accumulated both errors of 2.1 C and the power
\* controller is still at the base frequency
C30_Witness ==
    /\ tick.n = 2
    /\ tick.mode = "Temperature" /\ ~tick.mode_changed
    /\ tick.fault # "None" /\ ~tick.heating /\ ~tick.was_running
    /\ tick.object_temp = degC(118) - 1
    /\ temp_ctrl.integrator = 126
    /\ power_ctrl = [freq_hz |-> Hz(29700), integrator |-> 0]


-----------------------------------------------------------------------------
(* The published switching frequency *)

\* C31: the status published by a tick carries switching_freq_hz = 0 when the
\* tick's mode is Idle or Cooldown; when the mode is ManualPower or
\* Temperature it carries the power controller's current frequency, which
\* lies within [26000, 32000] Hz whether or not the tick heated, and is
\* 29700 Hz on a tick that saw a mode change and did not heat.
C31_PublishedFrequency ==
    /\ status.mode = tick.mode
    /\ ~HeatingMode(tick.mode) => status.switching_freq_hz = 0
    /\ HeatingMode(tick.mode) =>
          /\ status.switching_freq_hz = power_ctrl.freq_hz
          /\ status.switching_freq_hz >= Hz(26000)
          /\ status.switching_freq_hz <= Hz(32000)
          /\ tick.mode_changed /\ ~tick.heating =>
                status.switching_freq_hz = Hz(29700)

\* a tick in a heating mode that did not heat published the frequency the
\* controller was left at by the heating tick before it, the upper clamp
C31_Witness ==
    /\ tick.n = RunningTicks + 2
    /\ HeatingMode(tick.mode)
    /\ ~tick.mode_changed
    /\ ~tick.heating
    /\ tick.was_running
    /\ ~status.heating_enabled
    /\ status.switching_freq_hz = Hz(32000)

\* a tick that saw the mode change to a heating mode, away from a controller
\* at the upper clamp, published the base frequency
C31_WitnessModeChange ==
    /\ tick.n = RunningTicks + 2
    /\ tick.was_running
    /\ HeatingMode(tick.mode)
    /\ tick.mode_changed
    /\ ~tick.heating
    /\ status.switching_freq_hz = Hz(29700)
    /\ power_ctrl = PowerController_new(BASE_FREQUENCY_HZ)

\* a tick in Idle or Cooldown published 0 while the controller, untouched
\* since the mode changed, holds the base frequency
C31_WitnessIdle ==
    /\ tick.n > 0
    /\ ~HeatingMode(tick.mode)
    /\ status.switching_freq_hz = 0
    /\ power_ctrl.freq_hz = Hz(29700)


-----------------------------------------------------------------------------
(* The menu and its operator: any sequence of button presses *)

\* the status record as a tick publishes it, with and without the target
\* reached
StatusSamples ==
    { [ControlStatus_new EXCEPT !.target_reached = r] : r \in BOOLEAN }

ConfigNext ==
    \/ MenuStart
    \/ MenuTop("None")
    \/ \E st \in StatusSamples : MenuRead(st)
    \/ MenuNoPress
    \/ \E b \in Buttons : MenuPress(b)

ConfigSpec == Init /\ [][ConfigNext]_vars


\* the two values the operator sets are inside their ranges
SettingsInRange(s) ==
    /\ s.manual_power_kw >= 0 /\ s.manual_power_kw <= POWER_LIMIT_KW
    /\ s.target_temp_c >= degC(40) /\ s.target_temp_c <= degC(350)

\* C32: the defaults 5.0 kW and 120 C are inside [0, POWER_LIMIT_KW] and
\* [40, 350] C and every menu step leaves manual_power_kw and target_temp_c
\* inside them: Up or Down on the manual configuration screen moves
\* manual_power_kw by 0.5 kW, stopping at the range's ends, and leaves the
\* target alone; Up or Down on the temperature configuration screen moves
\* target_temp_c by 10 C, stopping at the ends, and leaves the power alone;
\* Enter, a press on any other screen and every other menu step change
\* neither.
C32_SettingsInRange ==
    /\ ControlSettings_new.manual_power_kw = kW(5)
    /\ ControlSettings_new.target_temp_c = degC(120)
    /\ SettingsInRange(ControlSettings_new)
    /\ SettingsInRange(settings)
    /\ [][ LET p  == settings.manual_power_kw
               t  == settings.target_temp_c
               p2 == settings'.manual_power_kw
               t2 == settings'.target_temp_c
               on_power == pc["menu"] = "screen" /\ menu.screen = "ManualConfig"
               on_temp  == pc["menu"] = "screen" /\ menu.screen = "TemperatureConfig"
           IN  /\ SettingsInRange(settings')
               /\ on_power /\ MenuPress("Up") =>
                     t2 = t /\ p2 = IF p + 50000 > POWER_LIMIT_KW
                                    THEN POWER_LIMIT_KW ELSE p + 50000
               /\ on_power /\ MenuPress("Down") =>
                     t2 = t /\ p2 = IF p - 50000 < 0 THEN 0 ELSE p - 50000
               /\ on_temp /\ MenuPress("Up") =>
                     p2 = p /\ t2 = IF t + 100 > 3500 THEN 3500 ELSE t + 100
               /\ on_temp /\ MenuPress("Down") =>
                     p2 = p /\ t2 = IF t - 100 < 400 THEN 400 ELSE t - 100
               /\ \/ MenuPress("Enter")
                  \/ ~(on_power \/ on_temp)
                  \/ ~(MenuPress("Up") \/ MenuPress("Down"))
                  => p2 = p /\ t2 = t
         ]_vars

\* Up was pressed on the temperature configuration screen with the target at
\* 350 C, after the manual power had been stepped up to the limit
C32_Witness ==
    /\ menu.screen = "TemperatureConfig"
    /\ pc["menu"] = "screen"
    /\ menu.pressed = "Up"
    /\ settings.target_temp_c = degC(350)
    /\ settings.manual_power_kw = POWER_LIMIT_KW

\* Down was pressed on the manual configuration screen with the power at 0,
\* after the target had been stepped down to 40 C
C32_WitnessLowEnds ==
    /\ menu.screen = "ManualConfig"
    /\ pc["menu"] = "screen"
    /\ menu.pressed = "Down"
    /\ settings.manual_power_kw = 0
    /\ settings.target_temp_c = degC(40)


-----------------------------------------------------------------------------
(* The menu between the operator, the fault record and the control loop *)

\* the operator presses a button, MaxPresses times at most
OperatorPress == menu.presses < MaxPresses /\ \E b \in Buttons : MenuPress(b)

MenuNext ==
    \/ MenuStart
    \/ \E fault \in FaultInputs : MenuTop(fault)
    \/ \E code \in FaultInputs : MenuFaultScreen(code)
    \/ \E st \in StatusSamples : MenuRead(st)
    \/ MenuNoPress
    \/ OperatorPress

MenuSpec == Init /\ [][MenuNext]_vars


\* C33: settings.mode becomes Cooldown only by the menu loop running the
\* cooldown screen that the temperature status screen returned on Enter with
\* target_reached true in the status snapshot of that poll, and the mode it
\* replaces is Temperature; while the mode is Cooldown the menu is on the
\* cooldown screen, and any button there sets the mode to Idle and returns
\* to mode selection.
C33_CooldownEntry ==
    /\ [](settings.mode = "Cooldown" =>
             menu.screen = "Cooldown" /\ pc["menu"] = "screen")
    /\ [](menu.screen = "Cooldown" =>
             menu.pressed = "Enter" /\ menu.target_reached)
    /\ [][ /\ menu'.screen = "Cooldown" /\ menu.screen # "Cooldown" =>
                /\ menu.screen = "TemperatureStatus"
                /\ pc["menu"] = "display"
                /\ MenuPress("Enter")
                /\ menu.target_reached
           /\ settings'.mode = "Cooldown" /\ settings.mode # "Cooldown" =>
                /\ MenuTop("None")
                /\ menu.screen = "Cooldown"
                /\ settings.mode = "Temperature"
           /\ \A b \in Buttons :
                menu.screen = "Cooldown" /\ MenuPress(b) =>
                   /\ settings'.mode = "Idle"
                   /\ menu'.screen = "ModeSelect"
                   /\ pc'["menu"] = "timer"
         ]_vars

\* the menu loop has set the mode to Cooldown after the temperature status
\* screen read target_reached in its status snapshot and Enter was pressed
C33_Witness ==
    /\ settings.mode = "Cooldown"
    /\ menu.screen = "Cooldown"
    /\ pc["menu"] = "screen"
    /\ menu.selected_mode = "Temperature"
    /\ menu.target_reached
    /\ menu.pressed = "Enter"

\* a button on the cooldown screen, the fifth press since boot, has set the
\* mode to Idle and returned to mode selection
C33_WitnessLeft ==
    /\ menu.presses = 5
    /\ menu.target_reached
    /\ menu.screen = "ModeSelect"
    /\ pc["menu"] = "timer"
    /\ settings.mode = "Idle"
    /\ menu.pressed = "Down"


\* C34: when the top of the menu loop reads a fault it goes to the fault
\* screen without writing the settings; no step taken while the menu is on
\* the fault screen changes the settings, and the menu leaves the fault
\* screen only by reading the fault record as None, for the mode selection
\* screen; the next write of settings.mode, by the loop top, is Idle; and
\* settings.mode becomes ManualPower or Temperature only when the loop runs
\* a configuration screen that Enter on the mode selection screen returned.
C34_FaultScreen ==
    /\ [](pc["menu"] = "timer" /\ menu.pressed = "None" =>
             menu.screen = "ModeSelect")
    /\ [][ /\ \A fault \in FaultInputs \ {"None"} :
                MenuTop(fault) =>
                   pc'["menu"] = "fault_screen" /\ settings' = settings
           /\ pc["menu"] = "fault_screen" => settings' = settings
           /\ pc["menu"] = "fault_screen" /\ pc'["menu"] # "fault_screen" =>
                /\ MenuFaultScreen("None")
                /\ menu'.screen = "ModeSelect"
                /\ menu'.pressed = "None"
                /\ pc'["menu"] = "timer"
           /\ MenuTop("None") /\ menu.pressed = "None" =>
                settings'.mode = "Idle"
           /\ HeatingMode(settings'.mode) /\ settings'.mode # settings.mode =>
                /\ MenuTop("None")
                /\ settings.mode = "Idle"
                /\ menu.pressed = "Enter"
                /\ menu.screen \in {"ManualConfig", "TemperatureConfig"}
         ]_vars

\* the loop left the fault screen, which had interrupted the Temperature mode
\* selected two or more presses before, and wrote Idle on the mode selection
\* screen
C34_Witness ==
    /\ menu.pressed = "None"
    /\ menu.presses >= 2
    /\ menu.selected_mode = "Temperature"
    /\ menu.index = 1
    /\ menu.screen = "ModeSelect"
    /\ pc["menu"] = "screen"
    /\ settings.mode = "Idle"
    /\ menu.last_code = "None"

\* the menu is on the fault screen with the fault still recorded and the
\* settings still in the heating mode it interrupted
C34_WitnessOnFaultScreen ==
    /\ pc["menu"] = "fault_screen"
    /\ menu.last_code # "None"
    /\ menu.screen = "ManualStatus"
    /\ settings.mode = "ManualPower"


-----------------------------------------------------------------------------
(* ChannelBuffers alone: any sequence of add_samples and read_and_clear *)

MaxAdds == 3

\* raw readings of the eight channels (0..4095): full scale on every channel,
\* and two sets whose sums on channel 5 (546 + 2730) divide evenly and on
\* channel 7 (4094 + 1) do not
RawSamples ==
    { [i \in Channels |-> ADC_FULL_SCALE],
      [i \in Channels |-> <<100, 1, 273, 546, 819, 546, 2047, 4094>>[i + 1]],
      [i \in Channels |-> <<200, 4094, 2730, 1000, 4095, 2730, 2048, 1>>[i + 1]] }

\* `channel: u8` arguments naming channels 0, 5 and 7, below 8 and above
ReadChannels == {0, 5, 7, 8, 13, 255}

\* channel_buffers.rs:19-25: add_samples(&raw)
AddSamples(raw) ==
    /\ \A i \in Channels : buffers.counts[i] < MaxAdds
    /\ buffers' = ChannelBuffers_add_samples(buffers, raw)
    /\ buf_call' = [op |-> "add_samples", channel |-> 0, returned |-> 0,
                    repeated |-> FALSE,
                    added |-> [i \in Channels |->
                                  Append(buf_call.added[i], raw[i])]]
    /\ UNCHANGED <<recVars, gpio, report, ctlVars, outVars, menu, sensor_writes,
                   pc, lock_holder, now>>

\* channel_buffers.rs:29-45: read_and_clear(channel)
ReadAndClear(channel) ==
    /\ \E v \in ChannelBuffers_read_values(buffers, channel) :
          buf_call' = [op |-> "read_and_clear", channel |-> channel,
                       returned |-> v,
                       repeated |-> (buf_call.op = "read_and_clear"
                                     /\ buf_call.channel = channel),
                       added |-> [buf_call.added EXCEPT ![channel % 8] = <<>>]]
    /\ buffers' = ChannelBuffers_read_and_clear(buffers, channel)
    /\ UNCHANGED <<recVars, gpio, report, ctlVars, outVars, menu, sensor_writes,
                   pc, lock_holder, now>>

BufferNext ==
    \/ \E raw \in RawSamples : AddSamples(raw)
    \/ \E channel \in ReadChannels : ReadAndClear(channel)

BufferSpec == Init /\ [][BufferNext]_vars

\* C35: read_and_clear(ch) returns 0 when channel ch % 8 was given no sample
\* since its last clear, and otherwise the average of the samples it was
\* given, scaled from 0..4095 to 0..65535 and cut to a whole count (at most
\* one count below the exact scaled average); it zeroes the sum and count of
\* channel ch % 8 and leaves every other channel's as they were; a
\* read_and_clear(ch) that directly follows a read_and_clear(ch) returns 0;
\* and add_samples adds exactly one to every channel's count.
C35_ReadAndClear ==
    [][ /\ \A channel \in ReadChannels :
              ReadAndClear(channel) =>
                 LET ch    == channel % 8
                     given == buf_call.added[ch]
                     r     == buf_call'.returned
                 IN  /\ r >= 0 /\ r <= 65535
                     /\ given = <<>> => r = 0
                     /\ given # <<>> =>
                           /\ r * 4095 * Len(given) <= SumSeq(given) * 65535
                           /\ SumSeq(given) * 65535 <= (r + 1) * 4095 * Len(given)
                     /\ buffers'.sums[ch] = 0 /\ buffers'.counts[ch] = 0
                     /\ \A i \in Channels \ {ch} :
                           /\ buffers'.sums[i] = buffers.sums[i]
                           /\ buffers'.counts[i] = buffers.counts[i]
                     /\ buf_call.op = "read_and_clear" /\ buf_call.channel = channel
                           => r = 0
        /\ \A raw \in RawSamples :
              AddSamples(raw) =>
                 \A i \in Channels : buffers'.counts[i] = buffers.counts[i] + 1
      ]_vars

\* read_and_clear(13) returned 26213 for the samples 546 and 2730 of channel
\* 5, whose exact scaled average is 26214, and the other channels still hold
\* their two samples
C35_Witness ==
    /\ buf_call.op = "read_and_clear"
    /\ buf_call.channel = 13
    /\ buf_call.returned = 26213
    /\ buffers.sums[5] = 0 /\ buffers.counts[5] = 0
    /\ \A i \in Channels \ {5} : buffers.counts[i] = 2
    /\ buffers.sums[7] = 4095

\* read_and_clear(8) directly after read_and_clear(8) returned 0 with two
\* samples still held by the other channels
C35_WitnessRepeated ==
    /\ buf_call.op = "read_and_clear"
    /\ buf_call.channel = 8
    /\ buf_call.repeated
    /\ buf_call.returned = 0
    /\ buffers.counts[1] = 2

\* read_and_clear(255) returned 32767 for the samples 4094 and 1 of channel 7
C35_WitnessTruncated ==
    /\ buf_call.op = "read_and_clear"
    /\ buf_call.channel = 255
    /\ buf_call.returned = 32767
    /\ buffers.counts[7] = 0 /\ buffers.counts[0] = 2

====
